---- MODULE Spec2Model ----
(***************************************************************************)
(* The protocol translation layer of termichat: the request converter      *)
(* (ModelConverter.toOpenAIMessages and normalizeContents), the response   *)
(* and stream converters, and CustomLLMContentGenerator's generateContent  *)
(* and generateContentStream.                                              *)
(*                                                                         *)
(* Encoding of JavaScript values.  An object is a record whose DOMAIN is   *)
(* the set of its own keys, so `'k' in o` is "k" \in DOMAIN o and a key    *)
(* that is absent (or undefined) is simply not in the DOMAIN.  Where the   *)
(* code tests typeof / Array.isArray on a value of a union type, the value *)
(* carries a "js" tag: JsStr(s) is the string s, JsArr(xs) the array xs.   *)
(* A CoreMessage content is StrContent(s) (a string) or ArrContent(es)     *)
(* (an array of typed entries).                                            *)
(***************************************************************************)
EXTENDS Integers, Sequences, FiniteSets, TLC

VARIABLES
  request,      \* toOpenAIMessages: the GenerateContentParameters converted
  draws,        \* the values Math.random() returned during the conversion
  messages,     \* the CoreMessage[] toOpenAIMessages returned
  marks,        \* marks[i]: the length of the list when the loop left block i
  convPc,       \* "start" before the call, "done" after it
  normInput,    \* normalizeContents: the ContentListUnion passed
  normOutput,   \* the Content[] it returned
  normAgain,    \* what it returned when called on its own output
  normPc,       \* "start" before the call, "done" after it, then "again"
  impl,         \* which CustomLLMContentGenerator: "custom_llm" or "models"
  genRequest,   \* the request passed to generateContent / generateContentStream
  genOp,        \* "none" | "generateContent" | "generateContentStream"
  genPc,        \* idle | returned | threw | streaming | done | failed
  events,       \* the backend stream events the generator has consumed
  yielded,      \* the responses the generator has yielded
  backend,      \* what generateText / generateObject resolved with (<<>> or <<r>>)
  response,     \* what generateContent returned (<<>>: nothing, else <<r>>)
  caught,       \* what the caller caught (<<>>: nothing, else <<e>>)
  raised,       \* what the backend raised (<<>>: nothing, else <<[at, error]>>)
  toolCallMap,    \* the ToolCallMap of a stream: slot index -> [name, arguments]
  completed,    \* the slots whose tool call the stream has signalled complete
  toolEvents,   \* the tool-call events the stream has delivered
  toolYielded,  \* the function-call responses emitted
  toolPc,       \* streaming | done | failed
  rtContent,    \* round trip: the content block converted
  rtMessages,   \* the CoreMessage[] toOpenAIMessages returned for it
  rtResponse,   \* what toGeminiResponse returned for its assistant messages
  rtPc,         \* "start", "converted", "back"
  llmOutput,    \* extractAnswer / extractJsonFromLLMOutput: the LLM output, as tokens
  answer,       \* what extractAnswer did (<<>>: not called)
  extracted,    \* what extractJsonFromLLMOutput did (<<>>: not called)
  utilPc,       \* "start", "answered", "extracted"
  heap,         \* normalizeSchema: the schema objects, heap[a] the object at address a
  heapBefore,   \* the heap when normalizeSchema was called
  normalized,   \* the address normalizeSchema returned (0: not called)
  schemaPc,     \* "build" while the caller builds the schema, then "done"
  toolParameters,\* convertJsonSchemaToZod: the JSON schema of a function declaration
  compiled,     \* the Zod schema it returned (<<>>: not called)
  toolArgs,     \* the arguments parsed with the compiled schema
  accepted,     \* whether the parse succeeded (<<>>: not parsed)
  zodPc,        \* "start", "compiled", "parsed"
  geminiTools,  \* toAiSDKTools: the tool list of the request
  aiTools,      \* the tool set it returned (<<>>: not called)
  aiPc,         \* "build", "done"
  countMessages,\* countTokens: the contents of the converted messages, as characters
  tokenCount,   \* the totalTokens it returned (<<>>: not called)
  countPc,      \* "type", "done"
  llmProviders, \* settings.merged.llmProviders: provider name -> configuration
  defaultLLMProvider,\* settings.merged.defaultLLMProvider (<<>>: unset)
  providerDialogs, \* useProviderCommand: which dialog is open, and the provider being edited
  providerCall, \* the last settings operation and what it found
  dialog,       \* ProviderDialog: isEdit and the state of the component
  onSaveCalls,  \* the calls of onSave: the configuration and the step it was made from
  dialogPc,     \* "open", "saved", "cancelled"
  errorMessage, \* AuthDialog: the error message shown (<<>>: none)
  selectedAuthType,\* settings.merged.selectedAuthType (<<>>: undefined)
  validMethods, \* the auth methods validateAuthMethod accepts in this environment
  authEvent,    \* the last key handled, the state it found and the onSelect call it made
  listProviders,    \* ProviderListDialog: the names of the listProviders prop, in entry order
  showConfirmation,\* whether the deletion prompt is shown
  confirmationAction,\* the provider the prompt asks about (<<>>: null)
  listEvent     \* the last key handled, the prompt it found and the callbacks it called

convVars == <<request, draws, messages, marks, convPc>>
normVars == <<normInput, normOutput, normAgain, normPc>>
genVars == <<impl, genRequest, genOp, genPc, events, yielded, backend, response, caught,
             raised>>
toolVars == <<toolCallMap, completed, toolEvents, toolYielded, toolPc>>
roundVars == <<rtContent, rtMessages, rtResponse, rtPc>>
utilVars == <<llmOutput, answer, extracted, utilPc>>
schemaVars == <<heap, heapBefore, normalized, schemaPc>>
zodVars == <<toolParameters, compiled, toolArgs, accepted, zodPc>>
toolsVars == <<geminiTools, aiTools, aiPc>>
countVars == <<countMessages, tokenCount, countPc>>
providerVars == <<llmProviders, defaultLLMProvider, providerDialogs, providerCall>>
dialogVars == <<dialog, onSaveCalls, dialogPc>>
authVars == <<errorMessage, selectedAuthType, validMethods, authEvent>>
listVars == <<listProviders, showConfirmation, confirmationAction, listEvent>>
vars == <<convVars, normVars, genVars, toolVars, roundVars, utilVars, schemaVars, zodVars, toolsVars, countVars, providerVars, dialogVars, authVars, listVars>>

\* The variables an action of one component leaves alone
notConv == <<normVars, genVars, toolVars, roundVars, utilVars, schemaVars, zodVars, toolsVars, countVars, providerVars, dialogVars, authVars, listVars>>
notNorm == <<convVars, genVars, toolVars, roundVars, utilVars, schemaVars, zodVars, toolsVars, countVars, providerVars, dialogVars, authVars, listVars>>
notGen == <<convVars, normVars, toolVars, roundVars, utilVars, schemaVars, zodVars, toolsVars, countVars, providerVars, dialogVars, authVars, listVars>>
notTool == <<convVars, normVars, genVars, roundVars, utilVars, schemaVars, zodVars, toolsVars, countVars, providerVars, dialogVars, authVars, listVars>>
notRound == <<convVars, normVars, genVars, toolVars, utilVars, schemaVars, zodVars, toolsVars, countVars, providerVars, dialogVars, authVars, listVars>>
notUtil == <<convVars, normVars, genVars, toolVars, roundVars, schemaVars, zodVars, toolsVars, countVars, providerVars, dialogVars, authVars, listVars>>
notSchema == <<convVars, normVars, genVars, toolVars, roundVars, utilVars, zodVars, toolsVars, countVars, providerVars, dialogVars, authVars, listVars>>
notZod == <<convVars, normVars, genVars, toolVars, roundVars, utilVars, schemaVars, toolsVars, countVars, providerVars, dialogVars, authVars, listVars>>
notTools == <<convVars, normVars, genVars, toolVars, roundVars, utilVars, schemaVars, zodVars, countVars, providerVars, dialogVars, authVars, listVars>>
notCount == <<convVars, normVars, genVars, toolVars, roundVars, utilVars, schemaVars, zodVars, toolsVars, providerVars, dialogVars, authVars, listVars>>
notProvider == <<convVars, normVars, genVars, toolVars, roundVars, utilVars, schemaVars, zodVars, toolsVars, countVars, dialogVars, authVars, listVars>>
notDialog == <<convVars, normVars, genVars, toolVars, roundVars, utilVars, schemaVars, zodVars, toolsVars, countVars, providerVars, authVars, listVars>>
notAuth == <<convVars, normVars, genVars, toolVars, roundVars, utilVars, schemaVars, zodVars, toolsVars, countVars, providerVars, dialogVars, listVars>>
notList == <<convVars, normVars, genVars, toolVars, roundVars, utilVars, schemaVars, zodVars, toolsVars, countVars, providerVars, dialogVars, authVars>>

(***************************************************************************)
(* Bounds.                                                                 *)
(***************************************************************************)
\* A request holds at most MaxSize content blocks and parts, counted together.
MaxSize == 4
\* An array passed to normalizeContents holds at most MaxItems items.
MaxItems == 2
\* A backend stream delivers at most MaxEvents events before it ends or fails.
MaxEvents == 3

(***************************************************************************)
(* JavaScript values.                                                      *)
(***************************************************************************)
Has(obj, key) == key \in DOMAIN obj

JsStr(s) == [js |-> "string", value |-> s]
JsArr(xs) == [js |-> "array", items |-> xs]
IsString(x) == Has(x, "js") /\ x.js = "string"
IsArray(x) == Has(x, "js") /\ x.js = "array"

StrContent(s) == [kind |-> "string", value |-> s]
ArrContent(es) == [kind |-> "array", value |-> es]

\* x || '' on an optional string field
OrEmpty(obj, key) == IF Has(obj, key) THEN obj[key] ELSE ""
\* the truthiness of an optional string field
Truthy(obj, key) == Has(obj, key) /\ obj[key] # ""

RECURSIVE Join(_, _)
Join(texts, sep) ==
  IF Len(texts) = 0 THEN ""
  ELSE IF Len(texts) = 1 THEN texts[1]
  ELSE texts[1] \o sep \o Join(Tail(texts), sep)

\* String.prototype.startsWith('image/') on the mime types of the model
StartsWithImage(mimeType) == mimeType \in {"image/png", "image/jpeg"}

\* Buffer.from(data, 'base64') as a byte sequence, on the payloads of the model
Base64Decode(data) ==
  CASE data = "QQ==" -> <<65>>
    [] data = "QUI=" -> <<65, 66>>
    [] OTHER -> <<>>

(***************************************************************************)
(* util: normalizeContents and the part classifiers.                       *)
(***************************************************************************)
\* Mutant: a content object passed alone is wrapped like a part
normalizeContents_WrapsContent(contents) ==
  IF IsArray(contents) THEN
    [i \in 1..Len(contents.items) |->
       LET item == contents.items[i] IN
       IF IsString(item) THEN [role |-> "user", parts |-> <<[text |-> item.value]>>]
       ELSE IF Has(item, "parts") THEN item
       ELSE [role |-> "user", parts |-> <<item>>]]
  ELSE IF IsString(contents) THEN
    <<[role |-> "user", parts |-> <<[text |-> contents.value]>>]>>
  ELSE <<[role |-> "user", parts |-> <<contents>>]>>

\* Mutant: every object of an array is wrapped, content objects too
normalizeContents_WrapsItems(contents) ==
  IF IsArray(contents) THEN
    [i \in 1..Len(contents.items) |->
       LET item == contents.items[i] IN
       IF IsString(item) THEN [role |-> "user", parts |-> <<[text |-> item.value]>>]
       ELSE [role |-> "user", parts |-> <<item>>]]
  ELSE IF IsString(contents) THEN
    <<[role |-> "user", parts |-> <<[text |-> contents.value]>>]>>
  ELSE IF Has(contents, "parts") THEN <<contents>>
  ELSE <<[role |-> "user", parts |-> <<contents>>]>>

normalizeContents(contents) ==
  IF IsArray(contents) THEN
    [i \in 1..Len(contents.items) |->
       LET item == contents.items[i] IN
       IF IsString(item) THEN [role |-> "user", parts |-> <<[text |-> item.value]>>]
       ELSE IF Has(item, "parts") THEN item
       ELSE [role |-> "user", parts |-> <<item>>]]
  ELSE IF IsString(contents) THEN
    <<[role |-> "user", parts |-> <<[text |-> contents.value]>>]>>
  ELSE IF Has(contents, "parts") THEN <<contents>>
  ELSE <<[role |-> "user", parts |-> <<contents>>]>>

isValidFunctionCall(part) ==
  /\ Has(part, "functionCall")
  /\ Has(part.functionCall, "name")
  /\ Has(part.functionCall, "args")

\* Mutant: the response is not looked at
isValidFunctionResponse_AnyResponse(part) ==
  /\ Has(part, "functionResponse")
  /\ Has(part.functionResponse, "id")
  /\ Has(part.functionResponse, "name")
  /\ Has(part.functionResponse, "response")

isValidFunctionResponse(part) ==
  /\ Has(part, "functionResponse")
  /\ LET functionResponse == part.functionResponse
         isValidId == Has(functionResponse, "id")
         isValidName == Has(functionResponse, "name")
         hasValidResponse ==
           IF ~Has(functionResponse, "response") THEN FALSE
           ELSE \/ Has(functionResponse.response, "output")
                \/ Has(functionResponse.response, "error")
     IN isValidId /\ isValidName /\ hasValidResponse

(***************************************************************************)
(* ModelConverter.toOpenAIMessages and its three passes.  Each pass takes  *)
(* the message list built so far and returns it with its messages pushed.  *)
(***************************************************************************)
HasTextKey(part) == Has(part, "text")

processTextParts(parts, role, msgs) ==
  LET textParts == SelectSeq(parts, HasTextKey) IN
  IF Len(textParts) > 0 THEN
    LET text == Join([i \in 1..Len(textParts) |-> textParts[i].text], "\n") IN
    IF role \in {"user", "system", "assistant"}
    THEN Append(msgs, [role |-> role, content |-> StrContent(text)])
    ELSE msgs
  ELSE msgs

HasInlineData(part) == Has(part, "inlineData")

processImageParts(parts, msgs) ==
  LET imgParts == SelectSeq(parts, HasInlineData) IN
  IF Len(imgParts) > 0 THEN
    LET inlineData == imgParts[1].inlineData IN
    IF /\ Has(inlineData, "mimeType")
       /\ StartsWithImage(inlineData.mimeType)
       /\ Truthy(inlineData, "data")
    THEN Append(msgs,
           [role |-> "user",
            content |-> ArrContent(<<[type |-> "image",
                                      image |-> Base64Decode(inlineData.data),
                                      mimeType |-> inlineData.mimeType]>>)])
    ELSE msgs
  ELSE msgs

\* Mutant: the output takes precedence over the error
ToolResultMessage_OutputFirst(part) ==
  [role |-> "tool",
   content |-> ArrContent(<<
     [type |-> "tool-result",
      toolCallId |-> part.functionResponse.id,
      toolName |-> part.functionResponse.name,
      result |-> IF Truthy(part.functionResponse.response, "output")
                 THEN part.functionResponse.response.output
                 ELSE "Error: " \o OrEmpty(part.functionResponse.response, "error")]>>)]

ToolResultMessage(part) ==
  [role |-> "tool",
   content |-> ArrContent(<<
     [type |-> "tool-result",
      toolCallId |-> part.functionResponse.id,
      toolName |-> part.functionResponse.name,
      result |-> IF Truthy(part.functionResponse.response, "error")
                 THEN "Error: " \o part.functionResponse.response.error
                 ELSE OrEmpty(part.functionResponse.response, "output")]>>)]

\* Mutant: the image message is pushed before the tool results
processFunctionResponseParts_ImageFirst(parts, msgs) ==
  LET frParts == SelectSeq(parts, isValidFunctionResponse) IN
  IF Len(frParts) > 0 THEN
    processImageParts(parts, msgs)
      \o [i \in 1..Len(frParts) |-> ToolResultMessage(frParts[i])]
  ELSE msgs

processFunctionResponseParts(parts, msgs) ==
  LET frParts == SelectSeq(parts, isValidFunctionResponse) IN
  IF Len(frParts) > 0 THEN
    processImageParts(parts,
      msgs \o [i \in 1..Len(frParts) |-> ToolResultMessage(frParts[i])])
  ELSE msgs

\* `call_${Math.random().toString(36).slice(2)}`: token is the base-36 text of
\* the value Math.random() returned
ToolCallId(token) == "call_" \o token

\* Mutant: one assistant message per function-call part
processFunctionCallParts_MessagePerPart(parts, msgs, rand) ==
  LET fcParts == SelectSeq(parts, isValidFunctionCall) IN
  msgs \o [i \in 1..Len(fcParts) |->
            [role |-> "assistant",
             content |-> ArrContent(<<[type |-> "tool-call",
                                       toolCallId |-> ToolCallId(rand[i]),
                                       toolName |-> fcParts[i].functionCall.name,
                                       args |-> fcParts[i].functionCall.args]>>)]]

\* Mutant: one identifier generated per message and shared by its entries
processFunctionCallParts_SharedId(parts, msgs, rand) ==
  LET fcParts == SelectSeq(parts, isValidFunctionCall) IN
  IF Len(fcParts) > 0 THEN
    LET toolCalls == [i \in 1..Len(fcParts) |->
                        [type |-> "tool-call",
                         toolCallId |-> ToolCallId(rand[1]),
                         toolName |-> fcParts[i].functionCall.name,
                         args |-> fcParts[i].functionCall.args]]
    IN Append(msgs, [role |-> "assistant", content |-> ArrContent(toolCalls)])
  ELSE msgs

\* rand: the values Math.random() returns to this pass, one per valid part
processFunctionCallParts(parts, msgs, rand) ==
  LET fcParts == SelectSeq(parts, isValidFunctionCall) IN
  IF Len(fcParts) > 0 THEN
    LET toolCalls == [i \in 1..Len(fcParts) |->
                        [type |-> "tool-call",
                         toolCallId |-> ToolCallId(rand[i]),
                         toolName |-> fcParts[i].functionCall.name,
                         args |-> fcParts[i].functionCall.args]]
    IN Append(msgs, [role |-> "assistant", content |-> ArrContent(toolCalls)])
  ELSE msgs

\* The number of Math.random() calls the conversion of one block makes
NumDraws(content) ==
  Len(SelectSeq(IF Has(content, "parts") THEN content.parts ELSE <<>>,
             isValidFunctionCall))

\* The body of the loop over the content blocks
ProcessContent(content, msgs, rand) ==
  LET role == IF Has(content, "role")
              THEN (IF content.role = "model" THEN "assistant" ELSE content.role)
              ELSE "undefined"
      parts == IF Has(content, "parts") THEN content.parts ELSE <<>>
  IN processFunctionCallParts(parts,
       processFunctionResponseParts(parts,
         processTextParts(parts, role, msgs)),
       rand)

RECURSIVE ProcessContents(_, _, _)
ProcessContents(contentsArray, msgs, rand) ==
  IF Len(contentsArray) = 0 THEN msgs
  ELSE LET n == NumDraws(Head(contentsArray)) IN
       ProcessContents(Tail(contentsArray),
                       ProcessContent(Head(contentsArray), msgs, SubSeq(rand, 1, n)),
                       SubSeq(rand, n + 1, Len(rand)))

SystemMessages(req) ==
  IF Has(req, "config") /\ Truthy(req.config, "systemInstruction")
  THEN <<[role |-> "system", content |-> StrContent(req.config.systemInstruction)]>>
  ELSE <<>>

toOpenAIMessages(req, rand) ==
  ProcessContents(normalizeContents(req.contents), SystemMessages(req), rand)

\* The length of the message list after each iteration of the loop
RECURSIVE LoopMarks(_, _, _)
LoopMarks(contentsArray, msgs, rand) ==
  IF Len(contentsArray) = 0 THEN <<>>
  ELSE LET n == NumDraws(Head(contentsArray))
           next == ProcessContent(Head(contentsArray), msgs, SubSeq(rand, 1, n))
       IN <<Len(next)>> \o LoopMarks(Tail(contentsArray), next, SubSeq(rand, n + 1, Len(rand)))

RECURSIVE TotalDraws(_)
TotalDraws(contentsArray) ==
  IF Len(contentsArray) = 0 THEN 0
  ELSE NumDraws(Head(contentsArray)) + TotalDraws(Tail(contentsArray))

(***************************************************************************)
(* The requests of the model.                                              *)
(***************************************************************************)
TextA == [text |-> "a"]
TextB == [text |-> "b"]
CallF == [functionCall |-> [name |-> "f", args |-> [a |-> 1]]]
CallG == [functionCall |-> [name |-> "g", args |-> [b |-> 2]]]
CallNoArgs == [functionCall |-> [name |-> "f"]]
CallNoName == [functionCall |-> [args |-> [a |-> 1]]]
RespOk ==
  [functionResponse |-> [id |-> "id1", name |-> "f", response |-> [output |-> "ok"]]]
RespBoth ==
  [functionResponse |->
     [id |-> "id2", name |-> "g", response |-> [output |-> "ok", error |-> "bad"]]]
RespEmptyError ==
  [functionResponse |-> [id |-> "id3", name |-> "f", response |-> [error |-> ""]]]
RespNeither ==
  [functionResponse |-> [id |-> "id4", name |-> "f", response |-> [status |-> "x"]]]
RespNoId == [functionResponse |-> [name |-> "f", response |-> [output |-> "ok"]]]
RespNoName == [functionResponse |-> [id |-> "id5", response |-> [output |-> "ok"]]]
ImagePng == [inlineData |-> [mimeType |-> "image/png", data |-> "QQ=="]]
InlineText == [inlineData |-> [mimeType |-> "text/plain", data |-> "QUI="]]

PartPool ==
  {TextA, TextB, CallF, CallG, CallNoArgs, RespOk, RespBoth, RespEmptyError,
   RespNeither, ImagePng, InlineText}

\* Parts that fail a required-field check, among parts that pass them
SkipPool ==
  {TextA, CallF, CallNoArgs, CallNoName, RespOk, RespNeither, RespNoId, RespNoName,
   ImagePng}

Roles == {"user", "model", "system"}

SystemInstructions == {"sys"}

\* The number of content blocks and parts of a content list, counted together
RECURSIVE SizeOf(_)
SizeOf(items) ==
  IF Len(items) = 0 THEN 0
  ELSE 1 + Len(Head(items).parts) + SizeOf(Tail(items))

\* The base-36 texts of the values Math.random() returns
RandomTokens == {"i", "9ix"}

(***************************************************************************)
(* SpecConv: the caller assembles a request, block by block and part by    *)
(* part, and calls toOpenAIMessages on it once.                            *)
(***************************************************************************)
\* No call of normalizeContents of its own is under way
NormIdle ==
  /\ normInput = JsArr(<<>>)
  /\ normOutput = <<>>
  /\ normAgain = <<>>
  /\ normPc = "start"

\* No round trip is under way
RoundIdle ==
  /\ rtContent = [role |-> "model", parts |-> <<>>]
  /\ rtMessages = <<>>
  /\ rtResponse = <<>>
  /\ rtPc = "start"

\* No util function is being called
UtilIdle ==
  /\ llmOutput = <<>>
  /\ answer = <<>>
  /\ extracted = <<>>
  /\ utilPc = "start"

\* No schema is being normalized
SchemaIdle ==
  /\ heap = <<[description |-> "d"]>>
  /\ heapBefore = <<>>
  /\ normalized = 0
  /\ schemaPc = "build"

\* No schema is being compiled
ZodIdle ==
  /\ toolParameters = [undefined |-> TRUE]
  /\ compiled = <<>>
  /\ toolArgs = [t |-> "undefined"]
  /\ accepted = <<>>
  /\ zodPc = "start"

\* toAiSDKTools is not being called
ToolsIdle ==
  /\ geminiTools = <<>>
  /\ aiTools = <<>>
  /\ aiPc = "build"

\* countTokens is not being called
CountIdle ==
  /\ countMessages = <<>>
  /\ tokenCount = <<>>
  /\ countPc = "type"

\* No provider command is being run
ProviderIdle ==
  /\ llmProviders = <<>>
  /\ defaultLLMProvider = <<>>
  /\ providerDialogs = [provider |-> FALSE, list |-> FALSE, editing |-> <<>>]
  /\ providerCall = [op |-> "none"]

\* No ProviderDialog is mounted
DialogIdle ==
  /\ dialog = [isEdit |-> FALSE]
  /\ onSaveCalls = <<>>
  /\ dialogPc = "open"

\* No AuthDialog is mounted
AuthIdle ==
  /\ errorMessage = <<>>
  /\ selectedAuthType = <<>>
  /\ validMethods = {}
  /\ authEvent = [key |-> "none"]

\* No ProviderListDialog is mounted
ListIdle ==
  /\ listProviders = <<>>
  /\ showConfirmation = FALSE
  /\ confirmationAction = <<>>
  /\ listEvent = [key |-> "none"]

\* No tool-call stream is under way
ToolIdle ==
  /\ toolCallMap = <<>>
  /\ completed = {}
  /\ toolEvents = <<>>
  /\ toolYielded = <<>>
  /\ toolPc = "streaming"

\* No generator call is under way
GenIdle ==
  /\ impl = "custom_llm"
  /\ genRequest = [contents |-> JsArr(<<>>)]
  /\ genOp = "none"
  /\ genPc = "idle"
  /\ events = <<>>
  /\ yielded = <<>>
  /\ backend = <<>>
  /\ response = <<>>
  /\ caught = <<>>
  /\ raised = <<>>

InitConv ==
  /\ NormIdle
  /\ GenIdle
  /\ ToolIdle
  /\ ListIdle
  /\ AuthIdle
  /\ DialogIdle
  /\ ProviderIdle
  /\ CountIdle
  /\ ToolsIdle
  /\ ZodIdle
  /\ SchemaIdle
  /\ UtilIdle
  /\ RoundIdle
  /\ request \in {[contents |-> JsArr(<<>>)]}
                 \cup {[contents |-> JsArr(<<>>), config |-> [systemInstruction |-> s]] :
                         s \in SystemInstructions}
  /\ draws = <<>>
  /\ messages = <<>>
  /\ marks = <<>>
  /\ convPc = "start"

\* The caller adds a content block, still without parts, to the request; the
\* role of a content block is optional
AddContent ==
  /\ convPc = "start"
  /\ SizeOf(request.contents.items) < MaxSize
  /\ \E block \in {[role |-> r, parts |-> <<>>] : r \in Roles} \cup {[parts |-> <<>>]} :
       request' = [request EXCEPT !.contents.items = Append(@, block)]
  /\ UNCHANGED <<draws, messages, marks, convPc, notConv>>

\* The caller adds a part to the last content block of the request
AddPart ==
  /\ convPc = "start"
  /\ Len(request.contents.items) > 0
  /\ SizeOf(request.contents.items) < MaxSize
  /\ \E p \in PartPool :
       request' = [request EXCEPT
                     !.contents.items[Len(request.contents.items)].parts = Append(@, p)]
  /\ UNCHANGED <<draws, messages, marks, convPc, notConv>>

CallToOpenAIMessages ==
  /\ convPc = "start"
  /\ \E rand \in [1..TotalDraws(normalizeContents(request.contents)) -> RandomTokens] :
       /\ draws' = rand
       /\ messages' = toOpenAIMessages(request, rand)
       /\ marks' = LoopMarks(normalizeContents(request.contents),
                             SystemMessages(request), rand)
  /\ convPc' = "done"
  /\ UNCHANGED <<request, notConv>>

NextConv == AddContent \/ AddPart \/ CallToOpenAIMessages

SpecConv == InitConv /\ [][NextConv]_vars

\* The caller adds a part, possibly one that fails a required-field check
AddSkipPart ==
  /\ convPc = "start"
  /\ Len(request.contents.items) > 0
  /\ SizeOf(request.contents.items) < MaxSize
  /\ \E p \in SkipPool :
       request' = [request EXCEPT
                     !.contents.items[Len(request.contents.items)].parts = Append(@, p)]
  /\ UNCHANGED <<draws, messages, marks, convPc, notConv>>

NextSkip == AddContent \/ AddSkipPart \/ CallToOpenAIMessages

\* SpecSkip: the same call, on requests that hold malformed parts
SpecSkip == InitConv /\ [][NextSkip]_vars

(***************************************************************************)
(* SpecNorm: one call of normalizeContents on a ContentListUnion: a        *)
(* string, a content object, a part, or an array mixing them.              *)
(***************************************************************************)
ContentModel == [role |-> "model", parts |-> <<TextA, CallF>>]
ContentEmpty == [role |-> "user", parts |-> <<>>]
ContentNoRole == [parts |-> <<TextB>>]

NormItems ==
  {JsStr("hi"), JsStr("yo"), ContentModel, ContentEmpty, ContentNoRole,
   TextA, CallF, ImagePng}

NormInputs ==
  NormItems \cup {JsArr(xs) : xs \in UNION {[1..n -> NormItems] : n \in 0..MaxItems}}

\* No call of toOpenAIMessages is under way
ConvIdle ==
  /\ request = [contents |-> JsArr(<<>>)]
  /\ draws = <<>>
  /\ messages = <<>>
  /\ marks = <<>>
  /\ convPc = "start"

InitNorm ==
  /\ ConvIdle
  /\ GenIdle
  /\ ToolIdle
  /\ ListIdle
  /\ AuthIdle
  /\ DialogIdle
  /\ ProviderIdle
  /\ CountIdle
  /\ ToolsIdle
  /\ ZodIdle
  /\ SchemaIdle
  /\ UtilIdle
  /\ RoundIdle
  /\ normInput \in NormInputs
  /\ normOutput = <<>>
  /\ normAgain = <<>>
  /\ normPc = "start"

CallNormalizeContents ==
  /\ normPc = "start"
  /\ normOutput' = normalizeContents(normInput)
  /\ normPc' = "done"
  /\ UNCHANGED <<normInput, normAgain, notNorm>>

\* The caller passes the returned Content[] to normalizeContents once more
CallNormalizeContentsAgain ==
  /\ normPc = "done"
  /\ normAgain' = normalizeContents(JsArr(normOutput))
  /\ normPc' = "again"
  /\ UNCHANGED <<normInput, normOutput, notNorm>>

NextNorm == CallNormalizeContents \/ CallNormalizeContentsAgain

SpecNorm == InitNorm /\ [][NextNorm]_vars

(***************************************************************************)
(* The response converters of ModelConverter.                              *)
(***************************************************************************)
Candidate(parts) ==
  [content |-> [parts |-> parts, role |-> "model"], index |-> 0, safetyRatings |-> <<>>]

\* usage?.<key> || 0
UsageCount(result, key) ==
  IF Has(result, "usage") /\ Has(result.usage, key) THEN result.usage[key] ELSE 0

\* Mutant: the candidates count is read from the total
UsageMetadataOf_MixedUp(result) ==
  [promptTokenCount |-> UsageCount(result, "promptTokens"),
   candidatesTokenCount |-> UsageCount(result, "totalTokens"),
   totalTokenCount |-> UsageCount(result, "totalTokens")]

UsageMetadataOf(result) ==
  [promptTokenCount |-> UsageCount(result, "promptTokens"),
   candidatesTokenCount |-> UsageCount(result, "completionTokens"),
   totalTokenCount |-> UsageCount(result, "totalTokens")]

\* JSON.stringify on the objects of the model
JsonStringify(object) ==
  CASE object = [a |-> 1] -> "{\"a\":1}"
    [] object = [a |-> 2] -> "{\"a\":2}"
    [] OTHER -> "{}"

\* Mutant: the function-call parts come before the text part
toGeminiResponse_CallsFirst(result) ==
  LET textParts == IF Truthy(result, "text") THEN <<[text |-> result.text]>> ELSE <<>>
      callParts ==
        IF Has(result, "toolCalls") /\ Len(result.toolCalls) > 0
        THEN [i \in 1..Len(result.toolCalls) |->
                [functionCall |-> [name |-> result.toolCalls[i].toolName,
                                   args |-> result.toolCalls[i].args]]]
        ELSE <<>>
      parts == callParts \o textParts
  IN IF Len(parts) > 0
     THEN [candidates |-> <<Candidate(parts)>>, usageMetadata |-> UsageMetadataOf(result)]
     ELSE [usageMetadata |-> UsageMetadataOf(result)]

\* Mutant: the tool calls are reported under the name of the first one
toGeminiResponse_FirstName(result) ==
  LET textParts == IF Truthy(result, "text") THEN <<[text |-> result.text]>> ELSE <<>>
      callParts ==
        IF Has(result, "toolCalls") /\ Len(result.toolCalls) > 0
        THEN [i \in 1..Len(result.toolCalls) |->
                [functionCall |-> [name |-> result.toolCalls[1].toolName,
                                   args |-> result.toolCalls[i].args]]]
        ELSE <<>>
      parts == textParts \o callParts
  IN IF Len(parts) > 0
     THEN [candidates |-> <<Candidate(parts)>>, usageMetadata |-> UsageMetadataOf(result)]
     ELSE [usageMetadata |-> UsageMetadataOf(result)]

toGeminiResponse(result) ==
  LET textParts == IF Truthy(result, "text") THEN <<[text |-> result.text]>> ELSE <<>>
      callParts ==
        IF Has(result, "toolCalls") /\ Len(result.toolCalls) > 0
        THEN [i \in 1..Len(result.toolCalls) |->
                [functionCall |-> [name |-> result.toolCalls[i].toolName,
                                   args |-> result.toolCalls[i].args]]]
        ELSE <<>>
      parts == textParts \o callParts
  IN IF Len(parts) > 0
     THEN [candidates |-> <<Candidate(parts)>>, usageMetadata |-> UsageMetadataOf(result)]
     ELSE [usageMetadata |-> UsageMetadataOf(result)]

toGeminiObjectResponse(result) ==
  [candidates |-> <<Candidate(<<[text |-> JsonStringify(result.object)]>>)>>,
   usageMetadata |-> UsageMetadataOf(result)]

\* Mutant: the response carries the text twice
toGeminiStreamTextResponse_TwoParts(content) ==
  [candidates |-> <<Candidate(<<[text |-> content], [text |-> content]>>)>>]

toGeminiStreamTextResponse(content) ==
  [candidates |-> <<Candidate(<<[text |-> content]>>)>>]

\* Mutant: the function call is emitted without its arguments
toGeminiStreamToolCallsResponse_NoArgs(toolCall) ==
  [candidates |-> <<Candidate(<<[functionCall |-> [name |-> toolCall.toolName]]>>)>>]

toGeminiStreamToolCallsResponse(toolCall) ==
  [candidates |->
     <<Candidate(<<[functionCall |-> [name |-> toolCall.toolName,
                                      args |-> toolCall.args]]>>)>>]

toGeminiStreamEndResponse == [candidates |-> <<Candidate(<<>>)>>]

toGeminiStreamUsageResponse(usage) ==
  [candidates |-> <<Candidate(<<>>)>>,
   usageMetadata |-> UsageMetadataOf([usage |-> usage])]

(***************************************************************************)
(* CustomLLMContentGenerator.  The repository holds two versions of the    *)
(* class: "custom_llm" streams text from streamText's fullStream and       *)
(* passes tools, "models" streams text from its textStream.  Both stream   *)
(* structured output from streamObject's textStream.  The backend stream   *)
(* is modelled as fullStream's typed events; a textStream shows the loop   *)
(* the text of the text-delta events.                                      *)
(***************************************************************************)
Impls == {"custom_llm", "models"}

JsonSchema == [properties |-> [a |-> [type |-> "number"]]]

GenConfigs ==
  {[responseMimeType |-> "application/json", responseSchema |-> JsonSchema],
   [responseMimeType |-> "application/json"],
   [responseMimeType |-> "text/plain", responseSchema |-> JsonSchema]}

GenRequests ==
  {[contents |-> JsArr(<<>>)]}
  \cup {[contents |-> JsArr(<<>>), config |-> c] : c \in GenConfigs}

isJsonRequest(req) ==
  /\ Has(req, "config")
  /\ Has(req.config, "responseMimeType")
  /\ req.config.responseMimeType = "application/json"
  /\ Has(req.config, "responseSchema")

\* What the external generation facility raises
BackendErrors ==
  {[class |-> "APICallError", message |-> "rate limit"],
   [class |-> "Error", message |-> "network down"],
   [class |-> "string", value |-> "boom"]}

\* error instanceof Error
InstanceOfError(error) == error.class # "string"

\* error instanceof Error ? error.message : String(error)
ErrorText(error) == IF InstanceOfError(error) THEN error.message ELSE error.value

\* Mutant: the catch block rethrows what it caught
WrapError_Rethrow(prefix, error) == error

\* catch (error) { throw new Error(`${prefix}${...}`) }
WrapError(prefix, error) == [class |-> "Error", message |-> prefix \o ErrorText(error)]

GenerateContentPrefix(req) ==
  IF isJsonRequest(req) THEN "Failed to generate JSON content: "
  ELSE "Failed to generate text content: "

GenerateContentStreamPrefix(req) ==
  IF isJsonRequest(req) THEN "Failed to generate streaming JSON content: "
  ELSE "Failed to generate streaming text content: "

\* What generateText and generateObject return
Usage123 == [promptTokens |-> 1, completionTokens |-> 2, totalTokens |-> 3]

TextResults ==
  {[text |-> "Hello", usage |-> Usage123],
   [text |-> "Hi", usage |-> [completionTokens |-> 2, totalTokens |-> 3],
    toolCalls |-> <<[toolName |-> "f", args |-> [a |-> 1]],
                    [toolName |-> "g", args |-> [b |-> 2]]>>],
   [text |-> "", toolCalls |-> <<[toolName |-> "f", args |-> [a |-> 1]]>>,
    usage |-> [promptTokens |-> 1]],
   [text |-> ""]}

ObjectResults ==
  {[object |-> [a |-> 1], usage |-> Usage123, finishReason |-> "stop"],
   [object |-> [a |-> 2], finishReason |-> "stop"]}

\* The events of a backend stream
TextDelta(s) == [type |-> "text-delta", textDelta |-> s]

TextDeltas == {TextDelta("He"), TextDelta("llo")}

OtherEvents ==
  {[type |-> "tool-call", toolCallId |-> "tc1", toolName |-> "f", args |-> [a |-> 1]],
   [type |-> "tool-call-delta", toolCallId |-> "tc1", toolName |-> "f",
    argsTextDelta |-> "{\"a\":"],
   [type |-> "error", error |-> [class |-> "APICallError", message |-> "rate limit"]],
   [type |-> "finish", finishReason |-> "stop", usage |-> Usage123]}

UsesFullStream(i, req) == i = "custom_llm" /\ ~isJsonRequest(req)

\* The events the for-await loop of the generator is handed
ObservableEvents(i, req) ==
  IF UsesFullStream(i, req) THEN TextDeltas \cup OtherEvents ELSE TextDeltas

\* Mutant: a text delta is yielded twice
FullStreamResponses_YieldTwice(chunk) ==
  IF chunk.type = "text-delta"
  THEN <<toGeminiStreamTextResponse(chunk.textDelta),
         toGeminiStreamTextResponse(chunk.textDelta)>>
  ELSE IF chunk.type = "tool-call" THEN <<toGeminiStreamToolCallsResponse(chunk)>>
  ELSE <<>>

\* The body of `for await (const chunk of stream.fullStream)`: what it yields
FullStreamResponses(chunk) ==
  IF chunk.type = "text-delta" THEN <<toGeminiStreamTextResponse(chunk.textDelta)>>
  ELSE IF chunk.type = "tool-call" THEN <<toGeminiStreamToolCallsResponse(chunk)>>
  ELSE <<>>

\* The body of `for await (const chunk of stream.textStream)`: what it yields
TextStreamResponses(chunk) == <<toGeminiStreamTextResponse(chunk.textDelta)>>

(***************************************************************************)
(* SpecGen: one call of generateContent or generateContentStream, and the  *)
(* consumer pulling the returned generator to its end.                     *)
(***************************************************************************)
InitGen ==
  /\ ConvIdle
  /\ NormIdle
  /\ ToolIdle
  /\ ListIdle
  /\ AuthIdle
  /\ DialogIdle
  /\ ProviderIdle
  /\ CountIdle
  /\ ToolsIdle
  /\ ZodIdle
  /\ SchemaIdle
  /\ UtilIdle
  /\ RoundIdle
  /\ impl \in Impls
  /\ genRequest \in GenRequests
  /\ genOp = "none"
  /\ genPc = "idle"
  /\ events = <<>>
  /\ yielded = <<>>
  /\ backend = <<>>
  /\ response = <<>>
  /\ caught = <<>>
  /\ raised = <<>>

\* generateContent: generateText / generateObject resolves
GenerateContentReturns ==
  /\ genPc = "idle"
  /\ genOp' = "generateContent"
  /\ IF isJsonRequest(genRequest)
     THEN \E result \in ObjectResults :
            /\ backend' = <<result>>
            /\ response' = <<toGeminiObjectResponse(result)>>
     ELSE \E result \in TextResults :
            /\ backend' = <<result>>
            /\ response' = <<toGeminiResponse(result)>>
  /\ genPc' = "returned"
  /\ UNCHANGED <<impl, genRequest, events, yielded, caught, raised, notGen>>

\* generateContent: generateText / generateObject rejects
GenerateContentThrows ==
  /\ genPc = "idle"
  /\ genOp' = "generateContent"
  /\ \E error \in BackendErrors :
       /\ raised' = <<[at |-> "call", error |-> error]>>
       /\ caught' = <<WrapError(GenerateContentPrefix(genRequest), error)>>
  /\ genPc' = "threw"
  /\ UNCHANGED <<impl, genRequest, backend, events, yielded, response, notGen>>

\* generateContentStream: streamText / streamObject returns its stream and the
\* generator over it is returned to the caller
GenerateContentStreamReturns ==
  /\ genPc = "idle"
  /\ genOp' = "generateContentStream"
  /\ genPc' = "streaming"
  /\ UNCHANGED <<impl, genRequest, backend, events, yielded, response, caught, raised,
                 notGen>>

\* generateContentStream: streamText / streamObject throws inside the try block
GenerateContentStreamThrows ==
  /\ genPc = "idle"
  /\ genOp' = "generateContentStream"
  /\ \E error \in BackendErrors :
       /\ raised' = <<[at |-> "call", error |-> error]>>
       /\ caught' = <<WrapError(GenerateContentStreamPrefix(genRequest), error)>>
  /\ genPc' = "threw"
  /\ UNCHANGED <<impl, genRequest, backend, events, yielded, response, notGen>>

\* The consumer pulls and the backend stream delivers an event
StreamEvent ==
  /\ genPc = "streaming"
  /\ Len(events) < MaxEvents
  /\ \E chunk \in ObservableEvents(impl, genRequest) :
       /\ events' = Append(events, chunk)
       /\ yielded' = yielded \o (IF UsesFullStream(impl, genRequest)
                                 THEN FullStreamResponses(chunk)
                                 ELSE TextStreamResponses(chunk))
  /\ UNCHANGED <<impl, genRequest, backend, genOp, genPc, response, caught, raised,
                 notGen>>

\* The consumer pulls and the backend stream has ended: the loop and the
\* generator complete
StreamEnd ==
  /\ genPc = "streaming"
  /\ genPc' = "done"
  /\ UNCHANGED <<impl, genRequest, backend, genOp, events, yielded, response, caught, raised,
                 notGen>>

\* The consumer pulls and the backend stream throws: nothing in the generator
\* catches it, the consumer's pull rejects with the backend's own exception
StreamThrows ==
  /\ genPc = "streaming"
  /\ \E error \in BackendErrors :
       /\ raised' = <<[at |-> "stream", error |-> error]>>
       /\ caught' = <<error>>
  /\ genPc' = "failed"
  /\ UNCHANGED <<impl, genRequest, backend, genOp, events, yielded, response, notGen>>

NextGen ==
  \/ GenerateContentReturns
  \/ GenerateContentThrows
  \/ GenerateContentStreamReturns
  \/ GenerateContentStreamThrows
  \/ StreamEvent
  \/ StreamEnd
  \/ StreamThrows

SpecGen == InitGen /\ [][NextGen]_vars

(***************************************************************************)
(* SpecToolStream: the streaming tool-call accumulator.  types.ts declares *)
(* its state (ToolCallData, ToolCallMap); the generator that fills it     *)
(* lives in openAI.js, so its steps follow the specification: the          *)
(* argument text of a slot grows by each delta chunk delivered for the     *)
(* slot, and at the slot's completion event the accumulated text is parsed *)
(* once and emitted through toGeminiStreamToolCallsResponse.               *)
(***************************************************************************)
Slots == {0, 1}

SlotName(slot) == IF slot = 0 THEN "f" ELSE "g"

ArgChunks == {"{\"a\":", "1}", "2}"}

\* JSON.parse on the texts of the model: whether it returns, and what
JsonParsable(text) == text \in {"{\"a\":1}", "{\"a\":2}"}

JsonParse(text) ==
  CASE text = "{\"a\":1}" -> [a |-> 1]
    [] text = "{\"a\":2}" -> [a |-> 2]

ToolCallDeltaEvent(slot, chunk) ==
  [type |-> "tool-call-delta", index |-> slot, name |-> SlotName(slot),
   argsTextDelta |-> chunk]

ToolCallCompleteEvent(slot) == [type |-> "tool-call-complete", index |-> slot]

\* The ToolCallMap after a delta chunk for a slot
AccumulateDelta(map, delta) ==
  [s \in DOMAIN map \cup {delta.index} |->
     IF s = delta.index
     THEN [name |-> delta.name,
           arguments |-> (IF s \in DOMAIN map THEN map[s].arguments ELSE "")
                           \o delta.argsTextDelta]
     ELSE map[s]]

\* The AIToolCall read from a slot at its completion event
CompletedToolCall(map, slot) ==
  [toolName |-> map[slot].name, args |-> JsonParse(map[slot].arguments)]

InitToolStream ==
  /\ ConvIdle
  /\ NormIdle
  /\ GenIdle
  /\ ToolIdle
  /\ ListIdle
  /\ AuthIdle
  /\ DialogIdle
  /\ ProviderIdle
  /\ CountIdle
  /\ ToolsIdle
  /\ ZodIdle
  /\ SchemaIdle
  /\ UtilIdle
  /\ RoundIdle

\* The backend delivers a chunk of the arguments of the tool call in a slot
ToolCallDelta ==
  /\ toolPc = "streaming"
  /\ Len(toolEvents) < MaxEvents
  /\ \E slot \in Slots \ completed, chunk \in ArgChunks :
       LET delta == ToolCallDeltaEvent(slot, chunk) IN
       /\ toolEvents' = Append(toolEvents, delta)
       /\ toolCallMap' = AccumulateDelta(toolCallMap, delta)
  /\ UNCHANGED <<completed, toolYielded, toolPc, notTool>>

\* The backend signals that the tool call in a slot is complete
ToolCallComplete ==
  /\ toolPc = "streaming"
  /\ Len(toolEvents) < MaxEvents
  /\ \E slot \in DOMAIN toolCallMap \ completed :
       /\ toolEvents' = Append(toolEvents, ToolCallCompleteEvent(slot))
       /\ completed' = completed \cup {slot}
       /\ IF JsonParsable(toolCallMap[slot].arguments)
          THEN /\ toolYielded' =
                    Append(toolYielded,
                           toGeminiStreamToolCallsResponse(CompletedToolCall(toolCallMap, slot)))
               /\ toolPc' = toolPc
          ELSE /\ toolYielded' = toolYielded
               /\ toolPc' = "failed"
  /\ UNCHANGED <<toolCallMap, notTool>>

\* The backend stream ends: the accumulator is discarded with it
ToolStreamEnd ==
  /\ toolPc = "streaming"
  /\ toolPc' = "done"
  /\ UNCHANGED <<toolCallMap, completed, toolEvents, toolYielded, notTool>>

NextToolStream == ToolCallDelta \/ ToolCallComplete \/ ToolStreamEnd

SpecToolStream == InitToolStream /\ [][NextToolStream]_vars

(***************************************************************************)
(* Reading the returned message list back: the content blocks converted,   *)
(* and the slice of `messages` each block emitted.                         *)
(***************************************************************************)
ContentsArray == normalizeContents(request.contents)

\* The messages emitted for content block i
BlockMessages(i) ==
  SubSeq(messages,
         (IF i = 1 THEN Len(SystemMessages(request)) ELSE marks[i - 1]) + 1,
         marks[i])

PartsOfBlock(i) == IF Has(ContentsArray[i], "parts") THEN ContentsArray[i].parts ELSE <<>>

\* text | tool-result | tool-call | image
KindOf(m) ==
  IF m.role = "tool" THEN "tool-result"
  ELSE IF m.content.kind = "string" THEN "text"
  ELSE m.content.value[1].type

IsToolResultMessage(m) == KindOf(m) = "tool-result"
IsToolCallMessage(m) == KindOf(m) = "tool-call"
IsImageMessage(m) == KindOf(m) = "image"

KindsOfBlock(i) == {KindOf(BlockMessages(i)[j]) : j \in 1..Len(BlockMessages(i))}

\* Within each block's messages the kinds follow `order`, and only tool-result
\* messages repeat
OrderedBy(order) ==
  \A i \in 1..Len(ContentsArray) :
    LET seg == BlockMessages(i) IN
    \A j, k \in 1..Len(seg) :
      j < k => /\ order[KindOf(seg[j])] <= order[KindOf(seg[k])]
               /\ KindOf(seg[j]) = KindOf(seg[k]) => KindOf(seg[j]) = "tool-result"

(***************************************************************************)
(* C1 (as stated): in the messages of every content block the text message *)
(* comes first, then the tool-result messages, then the assistant          *)
(* tool-call message, then the image message.                              *)
(***************************************************************************)
C1_ImageAfterToolCall ==
  convPc = "done" =>
    OrderedBy([x \in {"text", "tool-result", "tool-call", "image"} |->
                 CASE x = "text" -> 1 [] x = "tool-result" -> 2
                   [] x = "tool-call" -> 3 [] x = "image" -> 4])

(***************************************************************************)
(* C1 (amended): in the messages of every content block the text message   *)
(* comes first, then the tool-result messages, then the image message,     *)
(* then the assistant tool-call message: the image message directly        *)
(* follows the tool results and precedes the tool-call message.            *)
(***************************************************************************)
C1_ImageBeforeToolCall ==
  convPc = "done" =>
    OrderedBy([x \in {"text", "tool-result", "tool-call", "image"} |->
                 CASE x = "text" -> 1 [] x = "tool-result" -> 2
                   [] x = "image" -> 3 [] x = "tool-call" -> 4])

C1_Witness ==
  /\ convPc = "done"
  /\ \E i \in 1..Len(ContentsArray) :
       {"tool-result", "tool-call", "image"} \subseteq KindsOfBlock(i)

(***************************************************************************)
(* C7: every valid function-response part gets its own 'tool' message,     *)
(* with exactly one tool-result entry carrying the part's id and name,     *)
(* whose result is "Error: " + error when error is a non-empty string and  *)
(* the output otherwise (the empty string when there is no output).        *)
(***************************************************************************)
C7_Result(resp) ==
  IF Has(resp, "error") /\ resp.error # "" THEN "Error: " \o resp.error
  ELSE IF Has(resp, "output") THEN resp.output
  ELSE ""

C7_ToolMessagePerResponse ==
  convPc = "done" =>
    \A i \in 1..Len(ContentsArray) :
      LET frParts == SelectSeq(PartsOfBlock(i), isValidFunctionResponse)
          toolMsgs == SelectSeq(BlockMessages(i), IsToolResultMessage)
      IN /\ Len(toolMsgs) = Len(frParts)
         /\ \A k \in 1..Len(frParts) :
              /\ toolMsgs[k].role = "tool"
              /\ toolMsgs[k].content.kind = "array"
              /\ Len(toolMsgs[k].content.value) = 1
              /\ LET entry == toolMsgs[k].content.value[1]
                     fr == frParts[k].functionResponse
                 IN /\ entry.type = "tool-result"
                    /\ entry.toolCallId = fr.id
                    /\ entry.toolName = fr.name
                    /\ entry.result = C7_Result(fr.response)

C7_Witness ==
  /\ convPc = "done"
  /\ \E i \in 1..Len(ContentsArray) :
       /\ \E k \in 1..Len(PartsOfBlock(i)) : PartsOfBlock(i)[k] = RespBoth
       /\ \E j \in 1..Len(BlockMessages(i)) :
            /\ KindOf(BlockMessages(i)[j]) = "tool-result"
            /\ BlockMessages(i)[j].content.value[1].result = "Error: bad"

(***************************************************************************)
(* C8: a content block with n >= 1 valid function-call parts emits exactly *)
(* one assistant tool-call message, with n entries in part order, entry k  *)
(* carrying the name and args of the k-th part; a block with none emits no *)
(* tool-call message.                                                      *)
(***************************************************************************)
C8_OneToolCallMessage ==
  convPc = "done" =>
    \A i \in 1..Len(ContentsArray) :
      LET fcParts == SelectSeq(PartsOfBlock(i), isValidFunctionCall)
          callMsgs == SelectSeq(BlockMessages(i), IsToolCallMessage)
      IN IF Len(fcParts) = 0 THEN Len(callMsgs) = 0
         ELSE /\ Len(callMsgs) = 1
              /\ callMsgs[1].role = "assistant"
              /\ Len(callMsgs[1].content.value) = Len(fcParts)
              /\ \A k \in 1..Len(fcParts) :
                   LET entry == callMsgs[1].content.value[k] IN
                   /\ entry.type = "tool-call"
                   /\ entry.toolName = fcParts[k].functionCall.name
                   /\ entry.args = fcParts[k].functionCall.args

C8_Witness ==
  /\ convPc = "done"
  /\ \E i \in 1..Len(ContentsArray) :
       /\ SelectSeq(PartsOfBlock(i), isValidFunctionCall) = <<CallF, CallG>>
       /\ \E j \in 1..Len(BlockMessages(i)) :
            /\ KindOf(BlockMessages(i)[j]) = "tool-call"
            /\ Len(BlockMessages(i)[j].content.value) = 2

(***************************************************************************)
(* The call identifiers of the returned list, in emission order.           *)
(***************************************************************************)
RECURSIVE ToolCallIdsOf(_)
ToolCallIdsOf(msgs) ==
  IF Len(msgs) = 0 THEN <<>>
  ELSE (IF IsToolCallMessage(Head(msgs))
        THEN [k \in 1..Len(Head(msgs).content.value) |->
                Head(msgs).content.value[k].toolCallId]
        ELSE <<>>) \o ToolCallIdsOf(Tail(msgs))

(***************************************************************************)
(* C9 (as stated): no two tool-call entries of the returned message list   *)
(* share a toolCallId.                                                     *)
(***************************************************************************)
C9_IdsUnique ==
  convPc = "done" =>
    LET ids == ToolCallIdsOf(messages) IN
    \A j, k \in 1..Len(ids) : j # k => ids[j] # ids[k]

(***************************************************************************)
(* C9 (amended): every tool-call entry gets an identifier generated for it *)
(* alone, "call_" followed by the base-36 text of its own Math.random()    *)
(* value, one value per entry in emission order; two entries share a       *)
(* toolCallId exactly when Math.random() returned them the same value.     *)
(***************************************************************************)
C9_IdPerDraw ==
  convPc = "done" =>
    LET ids == ToolCallIdsOf(messages) IN
    /\ Len(ids) = Len(draws)
    /\ \A k \in 1..Len(ids) : ids[k] = "call_" \o draws[k]
    /\ \A j, k \in 1..Len(ids) : (ids[j] = ids[k]) <=> (draws[j] = draws[k])

C9_Witness ==
  /\ convPc = "done"
  /\ Len(ToolCallIdsOf(messages)) >= 2
  /\ \E j, k \in 1..Len(draws) : draws[j] # draws[k]

(***************************************************************************)
(* C10: normalizeContents maps its input element by element: a string      *)
(* becomes {role:'user', parts:[{text:string}]}, an object with a 'parts'  *)
(* field is returned unchanged, any other object is wrapped as             *)
(* {role:'user', parts:[object]}; a non-array input gives one block, an    *)
(* array input gives as many blocks as it has items, in the same order.    *)
(***************************************************************************)
C10_BlockOf(item) ==
  IF IsString(item) THEN [role |-> "user", parts |-> <<[text |-> item.value]>>]
  ELSE IF "parts" \in DOMAIN item THEN item
  ELSE [role |-> "user", parts |-> <<item>>]

C10_ElementByElement ==
  normPc # "start" =>
    IF IsArray(normInput)
    THEN /\ Len(normOutput) = Len(normInput.items)
         /\ \A i \in 1..Len(normInput.items) :
              normOutput[i] = C10_BlockOf(normInput.items[i])
    ELSE normOutput = <<C10_BlockOf(normInput)>>

C10_Witness ==
  /\ normPc = "done"
  /\ normInput = JsArr(<<JsStr("hi"), ContentModel>>)
  /\ normOutput = <<[role |-> "user", parts |-> <<[text |-> "hi"]>>], ContentModel>>

(***************************************************************************)
(* Reading a generator run back.                                           *)
(***************************************************************************)
OnTextStreamingPath == genOp = "generateContentStream" /\ ~isJsonRequest(genRequest)

PartsOfResponse(r) == r.candidates[1].content.parts

IsErrorEvent(chunk) == chunk.type = "error"
IsFinishEvent(chunk) == chunk.type = "finish"

(***************************************************************************)
(* C2: on the text streaming path every text-delta event yields exactly    *)
(* one response whose single part is that event's own delta text, the      *)
(* responses come in the order of the events, and no event of any type     *)
(* yields more than one response.                                          *)
(***************************************************************************)
RECURSIVE C2_Matches(_, _)
C2_Matches(evs, ys) ==
  IF Len(evs) = 0 THEN Len(ys) = 0
  ELSE IF Head(evs).type = "text-delta"
  THEN /\ Len(ys) > 0
       /\ PartsOfResponse(Head(ys)) = <<[text |-> Head(evs).textDelta]>>
       /\ C2_Matches(Tail(evs), Tail(ys))
  ELSE \/ C2_Matches(Tail(evs), ys)
       \/ Len(ys) > 0 /\ C2_Matches(Tail(evs), Tail(ys))

C2_OneResponsePerDelta == OnTextStreamingPath => C2_Matches(events, yielded)

C2_Witness ==
  /\ OnTextStreamingPath
  /\ impl = "custom_llm"
  /\ events = <<TextDelta("He"), TextDelta("llo")>>
  /\ Len(yielded) = 2
  /\ PartsOfResponse(yielded[1]) = <<[text |-> "He"]>>
  /\ PartsOfResponse(yielded[2]) = <<[text |-> "llo"]>>

(***************************************************************************)
(* C3 (as stated): when the backend stream has signalled its end and the   *)
(* generator has completed, it has yielded one response with an empty      *)
(* parts list and, when the final usage is known, a trailing usage-only    *)
(* response with its three usage fields filled.                            *)
(***************************************************************************)
C3_EndResponsesYielded ==
  (genOp = "generateContentStream" /\ genPc = "done") =>
    /\ \E k \in 1..Len(yielded) : PartsOfResponse(yielded[k]) = <<>>
    /\ \A k \in 1..Len(events) :
         IsFinishEvent(events[k]) =>
           /\ Len(yielded) > 0
           /\ yielded[Len(yielded)] = toGeminiStreamUsageResponse(events[k].usage)

(***************************************************************************)
(* C5: an error raised by the external generation call itself              *)
(* (generateText, generateObject, streamText, streamObject) reaches the    *)
(* caller as a new Error whose message is the operation's prefix followed  *)
(* by the original error's message, never as the backend's own exception.  *)
(***************************************************************************)
C5_Prefix ==
  CASE genOp = "generateContent" /\ ~isJsonRequest(genRequest) ->
         "Failed to generate text content: "
    [] genOp = "generateContent" /\ isJsonRequest(genRequest) ->
         "Failed to generate JSON content: "
    [] genOp = "generateContentStream" /\ ~isJsonRequest(genRequest) ->
         "Failed to generate streaming text content: "
    [] genOp = "generateContentStream" /\ isJsonRequest(genRequest) ->
         "Failed to generate streaming JSON content: "

C5_CallErrorsWrapped ==
  (raised # <<>> /\ raised[1].at = "call") =>
    LET original == raised[1].error IN
    /\ genPc = "threw"
    /\ Len(caught) = 1
    /\ caught[1].class = "Error"
    /\ caught[1].message =
         C5_Prefix \o (IF original.class = "string" THEN original.value
                       ELSE original.message)
    /\ caught[1] # original

C5_Witness ==
  /\ genOp = "generateContentStream"
  /\ genPc = "threw"
  /\ raised = <<[at |-> "call",
                 error |-> [class |-> "APICallError", message |-> "rate limit"]]>>
  /\ caught = <<[class |-> "Error",
                 message |-> "Failed to generate streaming text content: rate limit"]>>

(***************************************************************************)
(* C6 (as stated): a backend failure after the stream was opened, an       *)
(* exception raised while the consumer pulls or an error-typed event in    *)
(* the stream, is surfaced to the consumer as a translation failure: the   *)
(* generator never completes normally with the failure dropped.            *)
(***************************************************************************)
C6_StreamFailureSurfaced ==
  genOp = "generateContentStream" =>
    /\ (\E k \in 1..Len(events) : IsErrorEvent(events[k])) => genPc # "done"
    /\ (raised # <<>> /\ raised[1].at = "stream") =>
         caught = <<[class |-> "Error",
                     message |-> C5_Prefix \o (IF raised[1].error.class = "string"
                                               THEN raised[1].error.value
                                               ELSE raised[1].error.message)]>>

(***************************************************************************)
(* Reading a tool-call stream back.                                        *)
(***************************************************************************)
\* The chunks delivered for a slot, concatenated in arrival order
RECURSIVE ChunksOfSlot(_, _)
ChunksOfSlot(evs, slot) ==
  IF Len(evs) = 0 THEN ""
  ELSE (IF Head(evs).type = "tool-call-delta" /\ Head(evs).index = slot
        THEN Head(evs).argsTextDelta ELSE "")
       \o ChunksOfSlot(Tail(evs), slot)

IsParsedCompletion(ev) ==
  /\ ev.type = "tool-call-complete"
  /\ JsonParsable(ChunksOfSlot(toolEvents, ev.index))

C11_RoleAlwaysPresent ==
  normPc # "start" =>
    \A i \in 1..Len(normOutput) :
      Has(normOutput[i], "role") /\ normOutput[i].role \in Roles

(***************************************************************************)
(* C12: normalizeContents is idempotent: called on its own output it       *)
(* returns a sequence equal to that output.                                *)
(***************************************************************************)
C12_Idempotent == normPc = "again" => normAgain = normOutput

C12_Witness ==
  /\ normPc = "again"
  /\ normInput = JsArr(<<JsStr("hi"), TextA>>)
  /\ normOutput = <<[role |-> "user", parts |-> <<[text |-> "hi"]>>],
                    [role |-> "user", parts |-> <<TextA>>]>>
  /\ normAgain = normOutput

(***************************************************************************)
(* SpecRound: a content block is converted with toOpenAIMessages, the      *)
(* backend answers with the text and the tool-call entries of the          *)
(* assistant messages it was sent, and toGeminiResponse converts that      *)
(* answer back.                                                            *)
(***************************************************************************)
TextEmpty == [text |-> ""]

RoundParts == {TextA, TextB, TextEmpty, CallF, CallG, CallNoArgs, RespOk, ImagePng}

RoundContents ==
  {[role |-> r, parts |-> ps] :
     r \in {"model", "user"},
     ps \in UNION {[1..n -> RoundParts] : n \in 0..MaxItems}}

IsAssistantText(m) == m.role = "assistant" /\ m.content.kind = "string"

IsAssistantToolCalls(m) ==
  /\ m.role = "assistant"
  /\ m.content.kind = "array"
  /\ m.content.value[1].type = "tool-call"

\* A GenerateTextResult holding what the assistant messages hold
AssistantResult(msgs) ==
  LET texts == SelectSeq(msgs, IsAssistantText)
      calls == SelectSeq(msgs, IsAssistantToolCalls)
  IN [text |-> IF Len(texts) > 0 THEN texts[1].content.value ELSE "",
      toolCalls |-> IF Len(calls) > 0 THEN calls[1].content.value ELSE <<>>]

InitRound ==
  /\ ConvIdle
  /\ NormIdle
  /\ GenIdle
  /\ ToolIdle
  /\ ListIdle
  /\ AuthIdle
  /\ DialogIdle
  /\ ProviderIdle
  /\ CountIdle
  /\ ToolsIdle
  /\ ZodIdle
  /\ SchemaIdle
  /\ UtilIdle
  /\ rtContent \in RoundContents
  /\ rtMessages = <<>>
  /\ rtResponse = <<>>
  /\ rtPc = "start"

RoundToOpenAIMessages ==
  /\ rtPc = "start"
  /\ \E rand \in [1..NumDraws(rtContent) -> RandomTokens] :
       rtMessages' = toOpenAIMessages([contents |-> JsArr(<<rtContent>>)], rand)
  /\ rtPc' = "converted"
  /\ UNCHANGED <<rtContent, rtResponse, notRound>>

RoundToGeminiResponse ==
  /\ rtPc = "converted"
  /\ rtResponse' = <<toGeminiResponse(AssistantResult(rtMessages))>>
  /\ rtPc' = "back"
  /\ UNCHANGED <<rtContent, rtMessages, notRound>>

NextRound == RoundToOpenAIMessages \/ RoundToGeminiResponse

SpecRound == InitRound /\ [][NextRound]_vars

(***************************************************************************)
(* Reading a round trip back.                                              *)
(***************************************************************************)
PartsOrNone(r) == IF Has(r, "candidates") THEN r.candidates[1].content.parts ELSE <<>>

HasFunctionCallKey(part) == Has(part, "functionCall")

OriginalTexts == SelectSeq(rtContent.parts, HasTextKey)

OriginalCalls ==
  LET valid == SelectSeq(rtContent.parts, isValidFunctionCall) IN
  [i \in 1..Len(valid) |->
     [functionCall |-> [name |-> valid[i].functionCall.name,
                        args |-> valid[i].functionCall.args]]]

(***************************************************************************)
(* C13 (as stated): after the round trip of a model block the text parts   *)
(* of the response equal the original text parts exactly, and the          *)
(* function-call parts carry the original names and args.                  *)
(***************************************************************************)
C13_RoundTripExact ==
  (rtPc = "back" /\ rtContent.role = "model") =>
    /\ SelectSeq(PartsOrNone(rtResponse[1]), HasTextKey) = OriginalTexts
    /\ SelectSeq(PartsOrNone(rtResponse[1]), HasFunctionCallKey) = OriginalCalls

(***************************************************************************)
(* C13 (amended): after the round trip of a model block the response holds *)
(* one text part, the original text parts joined with newlines, when that  *)
(* joined text is not empty, and no text part otherwise; it is followed by *)
(* one function-call part per valid original function call, in order, with *)
(* the original name and args.                                             *)
(***************************************************************************)
C13_RoundTripJoined ==
  (rtPc = "back" /\ rtContent.role = "model") =>
    LET joined == Join([i \in 1..Len(OriginalTexts) |-> OriginalTexts[i].text], "\n")
    IN PartsOrNone(rtResponse[1]) =
         (IF joined # "" THEN <<[text |-> joined]>> ELSE <<>>) \o OriginalCalls

C13_Witness ==
  /\ rtPc = "back"
  /\ rtContent = [role |-> "model", parts |-> <<TextA, CallF>>]
  /\ PartsOrNone(rtResponse[1]) = <<TextA, CallF>>

(***************************************************************************)
(* C14: toGeminiResponse builds at most one candidate, of role 'model',    *)
(* whose parts are one text part if the backend returned text, followed by *)
(* one function-call part per backend tool call in the backend's order;    *)
(* with neither text nor tool calls there is no candidate; usage metadata  *)
(* is returned in every case.                                              *)
(***************************************************************************)
C14_TextCase == genOp = "generateContent" /\ genPc = "returned" /\ ~isJsonRequest(genRequest)

C14_OneCandidate ==
  C14_TextCase =>
    LET result == backend[1]
        res == response[1]
        hasText == "text" \in DOMAIN result /\ result.text # ""
        calls == IF "toolCalls" \in DOMAIN result THEN result.toolCalls ELSE <<>>
    IN /\ "usageMetadata" \in DOMAIN res
       /\ IF ~hasText /\ Len(calls) = 0
          THEN "candidates" \notin DOMAIN res
          ELSE /\ Len(res.candidates) = 1
               /\ res.candidates[1].content.role = "model"
               /\ LET parts == res.candidates[1].content.parts
                      offset == IF hasText THEN 1 ELSE 0
                  IN /\ Len(parts) = offset + Len(calls)
                     /\ hasText => parts[1] = [text |-> result.text]
                     /\ \A i \in 1..Len(calls) :
                          parts[offset + i] =
                            [functionCall |-> [name |-> calls[i].toolName,
                                               args |-> calls[i].args]]

C14_Witness ==
  /\ C14_TextCase
  /\ backend[1].text = "Hi"
  /\ response[1].candidates[1].content.parts =
       <<[text |-> "Hi"],
         [functionCall |-> [name |-> "f", args |-> [a |-> 1]]],
         [functionCall |-> [name |-> "g", args |-> [b |-> 2]]]>>

(***************************************************************************)
(* Reading the usage of a response back.                                   *)
(***************************************************************************)
HasUsageCounts(res) ==
  /\ "usageMetadata" \in DOMAIN res
  /\ DOMAIN res.usageMetadata =
       {"promptTokenCount", "candidatesTokenCount", "totalTokenCount"}
  /\ \A k \in DOMAIN res.usageMetadata : res.usageMetadata[k] \in Nat

ReportedCount(result, key) ==
  IF "usage" \in DOMAIN result /\ key \in DOMAIN result.usage
  THEN result.usage[key] ELSE 0

(***************************************************************************)
(* C15 (as stated): every response the layer hands out, the responses of   *)
(* generateContent and every streamed envelope, carries a usage-metadata   *)
(* block with three counts that are natural numbers.                       *)
(***************************************************************************)
C15_UsageOnEveryResponse ==
  /\ \A k \in 1..Len(response) : HasUsageCounts(response[k])
  /\ \A k \in 1..Len(yielded) : HasUsageCounts(yielded[k])

(***************************************************************************)
(* C15 (amended): every response generateContent returns carries a         *)
(* usage-metadata block whose three counts are natural numbers, the        *)
(* backend's count where it reported one and 0 where it did not; the text  *)
(* and function-call envelopes generateContentStream yields carry no       *)
(* usage-metadata block.                                                   *)
(***************************************************************************)
C15_UsageOnCompleteResponses ==
  /\ (genOp = "generateContent" /\ genPc = "returned") =>
       /\ HasUsageCounts(response[1])
       /\ response[1].usageMetadata =
            [promptTokenCount |-> ReportedCount(backend[1], "promptTokens"),
             candidatesTokenCount |-> ReportedCount(backend[1], "completionTokens"),
             totalTokenCount |-> ReportedCount(backend[1], "totalTokens")]
  /\ \A k \in 1..Len(yielded) : "usageMetadata" \notin DOMAIN yielded[k]

C15_Witness ==
  /\ genOp = "generateContent"
  /\ genPc = "returned"
  /\ "usage" \in DOMAIN backend[1]
  /\ backend[1].usage = [promptTokens |-> 1]
  /\ response[1].usageMetadata =
       [promptTokenCount |-> 1, candidatesTokenCount |-> 0, totalTokenCount |-> 0]

(***************************************************************************)
(* util: extractAnswer and extractJsonFromLLMOutput.  A string is a        *)
(* sequence of tokens: the four think tags, the two fence markers, a run   *)
(* of white space, a word and a JSON text.  No token holds part of a tag   *)
(* or of a marker, except that the opening fence marker begins with the    *)
(* closing one.                                                            *)
(***************************************************************************)
\* An LLM output holds at most MaxTokens tokens.
MaxTokens == 4

\* The markers of a fenced block: three backquotes, followed by json in the
\* opening one
FenceJson == "[fence]json"
Fence == "[fence]"

Tokens ==
  {"<think>", "</think>", "<thinking>", "</thinking>", " ", "a",
   FenceJson, Fence, "{\"a\":1}"}

Texts == UNION {[1..n -> Tokens] : n \in 0..MaxTokens}

\* String.prototype.includes
Includes(s, tok) == \E i \in 1..Len(s) : s[i] = tok

\* String.prototype.indexOf, for a token the string includes
IndexOf(s, tok) == CHOOSE i \in 1..Len(s) : s[i] = tok /\ \A j \in 1..(i - 1) : s[j] # tok

\* String.prototype.split
RECURSIVE Split(_, _)
Split(s, sep) ==
  IF ~Includes(s, sep) THEN <<s>>
  ELSE LET i == IndexOf(s, sep) IN
       <<SubSeq(s, 1, i - 1)>> \o Split(SubSeq(s, i + 1, Len(s)), sep)

RECURSIVE TrimStart(_)
TrimStart(s) == IF Len(s) > 0 /\ s[1] = " " THEN TrimStart(Tail(s)) ELSE s

RECURSIVE TrimEnd(_)
TrimEnd(s) ==
  IF Len(s) > 0 /\ s[Len(s)] = " " THEN TrimEnd(SubSeq(s, 1, Len(s) - 1)) ELSE s

\* String.prototype.trim
Trim(s) == TrimEnd(TrimStart(s))

Returned(v) == [threw |-> FALSE, value |-> v]
Threw(e) == [threw |-> TRUE, error |-> e]

\* The body of the if in the loop of extractAnswer; partsAfter[1] is undefined,
\* and .trim() on it a TypeError, when partsBefore[1] holds no end tag
StripTagPair(s, start, end) ==
  LET partsBefore == Split(s, start)
      partsAfter == Split(partsBefore[2], end)
  IN IF Len(partsAfter) < 2 THEN Threw("TypeError")
     ELSE Returned(Trim(Trim(partsBefore[1]) \o <<" ">> \o Trim(partsAfter[2])))

extractAnswer(s) ==
  IF Includes(s, "<think>") /\ Includes(s, "</think>")
  THEN StripTagPair(s, "<think>", "</think>")
  ELSE IF Includes(s, "<thinking>") /\ Includes(s, "</thinking>")
  THEN StripTagPair(s, "<thinking>", "</thinking>")
  ELSE Returned(s)

InitUtil ==
  /\ ConvIdle
  /\ NormIdle
  /\ GenIdle
  /\ ToolIdle
  /\ ListIdle
  /\ AuthIdle
  /\ DialogIdle
  /\ ProviderIdle
  /\ CountIdle
  /\ ToolsIdle
  /\ ZodIdle
  /\ SchemaIdle
  /\ RoundIdle
  /\ llmOutput \in Texts
  /\ answer = <<>>
  /\ extracted = <<>>
  /\ utilPc = "start"

CallExtractAnswer ==
  /\ utilPc = "start"
  /\ answer' = <<extractAnswer(llmOutput)>>
  /\ utilPc' = "answered"
  /\ UNCHANGED <<llmOutput, extracted, notUtil>>

\* output.trim().startsWith('<think')
StartsWithThinkTag(s) == Len(Trim(s)) > 0 /\ Trim(s)[1] \in {"<think>", "<thinking>"}

Undefined == [undefined |-> TRUE]

\* JSON.parse(s): <<value>> when it returns, <<>> when it throws
TryJsonParse(s) ==
  LET str == Join(Trim(s), "") IN
  IF JsonParsable(str) THEN <<JsonParse(str)>> ELSE <<>>

IsFence(tok) == tok \in {Fence, FenceJson}

\* output.lastIndexOf of the closing marker, for a string that includes the
\* opening one
LastIndexOfFence(s) ==
  CHOOSE j \in 1..Len(s) : IsFence(s[j]) /\ \A k \in (j + 1)..Len(s) : ~IsFence(s[k])

\* output.substring(jsonStart + 7, jsonEnd); substring swaps its arguments when
\* jsonEnd is jsonStart, and gives the opening marker itself
FencedJsonString(s) ==
  LET jsonStart == IndexOf(s, FenceJson)
      jsonEnd == LastIndexOfFence(s)
  IN IF jsonEnd > jsonStart THEN SubSeq(s, jsonStart + 1, jsonEnd - 1)
     ELSE <<FenceJson>>

extractJsonFromLLMOutput(s) ==
  LET stripped == IF StartsWithThinkTag(s) THEN extractAnswer(s) ELSE Returned(s) IN
  IF stripped.threw THEN stripped
  ELSE LET output == stripped.value IN
       IF TryJsonParse(output) # <<>> THEN Returned(TryJsonParse(output)[1])
       ELSE IF Includes(output, FenceJson)
       THEN (IF TryJsonParse(FencedJsonString(output)) # <<>>
             THEN Returned(TryJsonParse(FencedJsonString(output))[1])
             ELSE Returned(Undefined))
       ELSE Returned(Undefined)

CallExtractJsonFromLLMOutput ==
  /\ utilPc = "start"
  /\ extracted' = <<extractJsonFromLLMOutput(llmOutput)>>
  /\ utilPc' = "extracted"
  /\ UNCHANGED <<llmOutput, answer, notUtil>>

NextUtil == CallExtractAnswer \/ CallExtractJsonFromLLMOutput

SpecUtil == InitUtil /\ [][NextUtil]_vars

(***************************************************************************)
(* Reading extractAnswer back.                                             *)
(***************************************************************************)
TagKinds ==
  <<[start |-> "<think>", end |-> "</think>"],
    [start |-> "<thinking>", end |-> "</thinking>"]>>

\* A start tag of the kind with an end tag of the kind somewhere after it
HasPair(s, kind) ==
  \E i, j \in 1..Len(s) : i < j /\ s[i] = kind.start /\ s[j] = kind.end

\* The first start tag of the kind that has an end tag after it, and the first
\* end tag after it
PairStart(s, kind) ==
  CHOOSE i \in 1..Len(s) :
    /\ s[i] = kind.start
    /\ \E j \in (i + 1)..Len(s) : s[j] = kind.end
    /\ \A k \in 1..(i - 1) :
         ~(s[k] = kind.start /\ \E j \in (k + 1)..Len(s) : s[j] = kind.end)

PairEnd(s, kind) ==
  CHOOSE j \in (PairStart(s, kind) + 1)..Len(s) :
    /\ s[j] = kind.end
    /\ \A k \in (PairStart(s, kind) + 1)..(j - 1) : s[k] # kind.end

\* The text without its first pair: what is before the start tag and all that
\* is after the end tag, trimmed and joined with a space
WithoutPair(s, kind) ==
  Trim(Trim(SubSeq(s, 1, PairStart(s, kind) - 1)) \o <<" ">>
       \o Trim(SubSeq(s, PairEnd(s, kind) + 1, Len(s))))

HasAnyStartTag(s) == Includes(s, "<think>") \/ Includes(s, "<thinking>")
HasAnyTag(s) == HasAnyStartTag(s) \/ Includes(s, "</think>") \/ Includes(s, "</thinking>")

\* The text without its first matching pair, the <think> kind looked for first
WithoutFirstPair(s) ==
  IF HasPair(s, TagKinds[1]) THEN WithoutPair(s, TagKinds[1])
  ELSE IF HasPair(s, TagKinds[2]) THEN WithoutPair(s, TagKinds[2])
  ELSE s

(***************************************************************************)
(* C16 (as stated): when the text holds a matching pair of think tags,     *)
(* extractAnswer returns the text before the opening tag and all the text  *)
(* after the closing tag of the first matching pair, each trimmed, joined  *)
(* with a space; a text without any tag is returned unchanged.             *)
(***************************************************************************)
C16_StripsFirstPair ==
  utilPc = "answered" =>
    /\ (HasPair(llmOutput, TagKinds[1]) \/ HasPair(llmOutput, TagKinds[2])) =>
         answer = <<[threw |-> FALSE, value |-> WithoutFirstPair(llmOutput)]>>
    /\ ~HasAnyTag(llmOutput) => answer = <<[threw |-> FALSE, value |-> llmOutput]>>

(***************************************************************************)
(* C17 (as stated): when the text holds a start tag and no start tag has a *)
(* matching end tag after it, extractAnswer returns the text unchanged and *)
(* does not raise.                                                         *)
(***************************************************************************)
C17_UnmatchedStartUnchanged ==
  (/\ utilPc = "answered"
   /\ HasAnyStartTag(llmOutput)
   /\ ~HasPair(llmOutput, TagKinds[1])
   /\ ~HasPair(llmOutput, TagKinds[2])) =>
    answer = <<[threw |-> FALSE, value |-> llmOutput]>>

(***************************************************************************)
(* C18 (as stated): extractJsonFromLLMOutput, on the text with a leading   *)
(* think wrapper stripped, returns the direct parse when it succeeds;      *)
(* otherwise, when an opening json fence marker and a closing fence marker *)
(* are found, the parse of the text between the first opening marker and   *)
(* the last closing marker; and undefined in every remaining case.  It     *)
(* never raises.                                                           *)
(***************************************************************************)
C18_ThreeTiers ==
  utilPc = "extracted" =>
    LET s == IF StartsWithThinkTag(llmOutput) THEN WithoutFirstPair(llmOutput)
             ELSE llmOutput
        direct == TryJsonParse(s)
        closed == \E i, j \in 1..Len(s) : i < j /\ s[i] = FenceJson /\ IsFence(s[j])
        fenced == IF closed THEN TryJsonParse(FencedJsonString(s)) ELSE <<>>
    IN extracted =
         <<[threw |-> FALSE,
            value |-> IF direct # <<>> THEN direct[1]
                      ELSE IF fenced # <<>> THEN fenced[1]
                      ELSE Undefined]>>

(***************************************************************************)
(* CustomLLMContentGenerator.normalizeSchema.  Schema objects live on a    *)
(* heap: a field that holds a sub-schema holds its address, so that an     *)
(* assignment to a field of an object is seen through every reference to   *)
(* the object.  The root of the schema passed is at address 1.             *)
(***************************************************************************)
\* A schema passed to normalizeSchema has at most MaxNodes nodes.
MaxNodes == 3

NodeShapes ==
  {[description |-> "d"],
   [description |-> "d", type |-> "object"],
   [description |-> "d", type |-> "string"]}

Links == {"properties", "items", "anyOf", "oneOf"}

\* obj[key] = val
SetField(obj, key, val) ==
  [k \in DOMAIN obj \cup {key} |-> IF k = key THEN val ELSE obj[k]]

\* The order in which Object.entries lists the properties of the model
PropertyKeys == <<"x", "y">>

RECURSIVE NormalizeNode(_, _)
RECURSIVE NormalizeEntries(_, _, _)
RECURSIVE NormalizeList(_, _, _)
RECURSIVE normalizeSchema(_, _)

\* The loop over Object.entries(normalized.properties): the heap after it and
\* normalizedProperties
NormalizeEntries(h, props, keys) ==
  IF Len(keys) = 0 THEN [heap |-> h, value |-> props]
  ELSE IF Head(keys) \notin DOMAIN props THEN NormalizeEntries(h, props, Tail(keys))
  ELSE LET r == normalizeSchema(h, props[Head(keys)]) IN
       NormalizeEntries(r.heap, [props EXCEPT ![Head(keys)] = r.ref], Tail(keys))

\* anyOf.map / oneOf.map: the heap after it and the new array, from index i on
NormalizeList(h, list, i) ==
  IF i > Len(list) THEN [heap |-> h, value |-> list]
  ELSE LET r == normalizeSchema(h, list[i]) IN
       NormalizeList(r.heap, [list EXCEPT ![i] = r.ref], i + 1)

\* The body of normalizeSchema after `normalized` was bound to the object at n
NormalizeNode(h, n) ==
  LET h1 == IF Has(h[n], "properties") /\ ~Truthy(h[n], "type")
            THEN [h EXCEPT ![n] = SetField(@, "type", "object")]
            ELSE h
      h2 == IF Has(h1[n], "properties")
            THEN LET r == NormalizeEntries(h1, h1[n].properties, PropertyKeys) IN
                 [r.heap EXCEPT ![n] = SetField(@, "properties", r.value)]
            ELSE h1
      h3 == IF Has(h2[n], "items")
            THEN LET r == normalizeSchema(h2, h2[n].items) IN
                 [r.heap EXCEPT ![n] = SetField(@, "items", r.ref)]
            ELSE h2
      h4 == IF Has(h3[n], "anyOf")
            THEN LET r == NormalizeList(h3, h3[n].anyOf, 1) IN
                 [r.heap EXCEPT ![n] = SetField(@, "anyOf", r.value)]
            ELSE h3
      h5 == IF Has(h4[n], "oneOf")
            THEN LET r == NormalizeList(h4, h4[n].oneOf, 1) IN
                 [r.heap EXCEPT ![n] = SetField(@, "oneOf", r.value)]
            ELSE h4
  IN [heap |-> h5, ref |-> n]

\* Mutant: normalized is the schema itself, not a copy of it
normalizeSchema_InPlace(h, a) == NormalizeNode(h, a)

\* const normalized = { ...schema }: a new object with the fields of schema
normalizeSchema(h, a) == NormalizeNode(Append(h, h[a]), Len(h) + 1)

InitSchema ==
  /\ ConvIdle
  /\ NormIdle
  /\ GenIdle
  /\ ToolIdle
  /\ ListIdle
  /\ AuthIdle
  /\ DialogIdle
  /\ ProviderIdle
  /\ CountIdle
  /\ ToolsIdle
  /\ ZodIdle
  /\ RoundIdle
  /\ UtilIdle
  /\ heap \in {<<shape>> : shape \in NodeShapes}
  /\ heapBefore = <<>>
  /\ normalized = 0
  /\ schemaPc = "build"

\* The caller adds a sub-schema to a node of the schema it builds
AddSubSchema ==
  /\ schemaPc = "build"
  /\ Len(heap) < MaxNodes
  /\ \E parent \in 1..Len(heap), link \in Links, shape \in NodeShapes :
       LET child == Len(heap) + 1
           node == heap[parent]
           linked ==
             CASE link = "properties" ->
                    IF ~Has(node, "properties") THEN SetField(node, link, [x |-> child])
                    ELSE SetField(node, link, SetField(node.properties, "y", child))
               [] link = "items" -> SetField(node, link, child)
               [] OTHER ->
                    SetField(node, link,
                             (IF Has(node, link) THEN node[link] ELSE <<>>) \o <<child>>)
       IN /\ link = "properties" =>
               ~(Has(node, "properties") /\ Has(node.properties, "y"))
          /\ link = "items" => ~Has(node, "items")
          /\ heap' = Append([heap EXCEPT ![parent] = linked], shape)
  /\ UNCHANGED <<heapBefore, normalized, schemaPc, notSchema>>

CallNormalizeSchema ==
  /\ schemaPc = "build"
  /\ heapBefore' = heap
  /\ LET r == normalizeSchema(heap, 1) IN
       /\ heap' = r.heap
       /\ normalized' = r.ref
  /\ schemaPc' = "done"
  /\ UNCHANGED notSchema

NextSchema == AddSubSchema \/ CallNormalizeSchema

SpecSchema == InitSchema /\ [][NextSchema]_vars

(***************************************************************************)
(* Reading a schema back.                                                  *)
(***************************************************************************)
\* The schema at an address as a value, sub-schemas in place of addresses
RECURSIVE SchemaAt(_, _)
SchemaAt(h, a) ==
  [k \in DOMAIN h[a] |->
     CASE k = "properties" ->
            [p \in DOMAIN h[a].properties |-> SchemaAt(h, h[a].properties[p])]
       [] k = "items" -> SchemaAt(h, h[a].items)
       [] k \in {"anyOf", "oneOf"} ->
            [i \in 1..Len(h[a][k]) |-> SchemaAt(h, h[a][k][i])]
       [] OTHER -> h[a][k]]

\* The schema value with type 'object' given to every node that has
\* properties and no type
RECURSIVE WithObjectTypes(_)
WithObjectTypes(s) ==
  LET keys == IF "properties" \in DOMAIN s /\ "type" \notin DOMAIN s
              THEN DOMAIN s \cup {"type"} ELSE DOMAIN s
  IN [k \in keys |->
        CASE k = "type" -> (IF "type" \in DOMAIN s THEN s.type ELSE "object")
          [] k = "properties" ->
               [p \in DOMAIN s.properties |-> WithObjectTypes(s.properties[p])]
          [] k = "items" -> WithObjectTypes(s.items)
          [] k \in {"anyOf", "oneOf"} -> [i \in 1..Len(s[k]) |-> WithObjectTypes(s[k][i])]
          [] OTHER -> s[k]]

(***************************************************************************)
(* C19: normalizeSchema returns a new schema in which every node reachable *)
(* through properties, items, anyOf and oneOf that has 'properties' and no *)
(* 'type' has type 'object', all other fields kept; after the call every   *)
(* object of the input schema is what it was before.                       *)
(***************************************************************************)
C19_NewSchemaInputKept ==
  schemaPc = "done" =>
    /\ normalized \notin 1..Len(heapBefore)
    /\ SchemaAt(heap, normalized) = WithObjectTypes(SchemaAt(heapBefore, 1))
    /\ \A a \in 1..Len(heapBefore) : heap[a] = heapBefore[a]

C19_Witness ==
  /\ schemaPc = "done"
  /\ SchemaAt(heapBefore, 1) =
       [description |-> "d",
        items |-> [description |-> "d",
                   properties |-> [x |-> [description |-> "d", type |-> "string"]]]]
  /\ SchemaAt(heap, normalized) =
       [description |-> "d",
        items |-> [description |-> "d", type |-> "object",
                   properties |-> [x |-> [description |-> "d", type |-> "string"]]]]
  /\ SchemaAt(heap, 1) = SchemaAt(heapBefore, 1)

(***************************************************************************)
(* ModelConverter.convertJsonSchemaToZod and jsonTypeToZod.  A Zod schema  *)
(* is a record of its kind, of whether .optional() was applied, and of the *)
(* shape of an object or the element of an array; Accepts is its parse.    *)
(***************************************************************************)
\* Object schemas nest at most MaxDepth levels below the parameters object.
MaxDepth == 1

PropString == [type |-> "string"]
PropNumber == [type |-> "number"]
PropUntyped == [description |-> "anything"]

RECURSIVE PropSchemas(_)
PropSchemas(d) ==
  IF d = 0 THEN {PropString, PropNumber, PropUntyped}
  ELSE PropSchemas(0)
       \cup {[type |-> "object", properties |-> [y |-> p]] : p \in PropSchemas(d - 1)}
       \cup {[type |-> "object", properties |-> [y |-> p], required |-> <<"y">>] :
               p \in PropSchemas(d - 1)}

RequiredLists == {<<>>, <<"x">>, <<"z">>, <<"x", "z">>}

\* func.parameters of the function declarations of the model
ToolSchemas ==
  {[undefined |-> TRUE]}
  \cup {[type |-> "object", properties |-> [x |-> p]] : p \in PropSchemas(MaxDepth)}
  \cup {[type |-> "object", properties |-> [x |-> p], required |-> <<"x">>] :
          p \in PropSchemas(MaxDepth)}
  \cup {[type |-> "object", properties |-> [x |-> p, z |-> q]] :
          p \in PropSchemas(MaxDepth), q \in PropSchemas(MaxDepth)}
  \cup {[type |-> "object", properties |-> [x |-> p, z |-> q], required |-> r] :
          p \in PropSchemas(MaxDepth), q \in PropSchemas(MaxDepth),
          r \in RequiredLists \ {<<>>}}

\* JavaScript values handed to the parse; a missing field reads as undefined
AbsentValue == [t |-> "undefined"]

ObjectValue(fields) == [t |-> "object", fields |-> fields]

RECURSIVE FieldValues(_)
FieldValues(d) ==
  {[t |-> "string", v |-> "s"], [t |-> "number", v |-> 1]}
  \cup (IF d = 0 THEN {}
        ELSE {ObjectValue([k \in {} |-> AbsentValue])}
             \cup {ObjectValue([y |-> v]) : v \in FieldValues(d - 1)})

ArgValues ==
  {ObjectValue(f) : f \in UNION {[S -> FieldValues(MaxDepth)] : S \in SUBSET {"x", "z"}}}

ZodAny == [kind |-> "any", optional |-> FALSE]
ZodOf(kind) == [kind |-> kind, optional |-> FALSE]
ZodObject(shape) == [kind |-> "object", optional |-> FALSE, shape |-> shape]
ZodArray(element) == [kind |-> "array", optional |-> FALSE, element |-> element]

\* schema.optional()
ZodOptional(schema) == [schema EXCEPT !.optional = TRUE]

\* new Set(jsonSchema.required), or the empty set
RequiredFields(jsonSchema) ==
  IF Has(jsonSchema, "required")
  THEN {jsonSchema.required[i] : i \in 1..Len(jsonSchema.required)}
  ELSE {}

RECURSIVE convertJsonSchemaToZod(_)
RECURSIVE jsonTypeToZod(_)

\* x && typeof x === 'object': not undefined, not null, not a string or a number
TypeofObject(x) == ~Has(x, "undefined") /\ (Has(x, "js") => x.js = "array")

\* Object.entries(properties) as a map from key to value
IndexKeys == <<"0", "1", "2">>
Entries(properties) ==
  IF IsArray(properties)
  THEN [key \in {IndexKeys[i] : i \in 1..Len(properties.items)} |->
          properties.items[CHOOSE i \in 1..Len(properties.items) : IndexKeys[i] = key]]
  ELSE properties

convertJsonSchemaToZod(jsonSchema) ==
  IF \/ ~TypeofObject(jsonSchema)
     \/ ~Has(jsonSchema, "properties")
     \/ ~TypeofObject(jsonSchema.properties)
  THEN ZodObject([k \in {} |-> ZodAny])
  ELSE ZodObject([key \in DOMAIN Entries(jsonSchema.properties) |->
                    LET fieldSchema == jsonTypeToZod(Entries(jsonSchema.properties)[key]) IN
                    IF key \in RequiredFields(jsonSchema) THEN fieldSchema
                    ELSE ZodOptional(fieldSchema)])

\* .describe() does not change what a schema accepts
jsonTypeToZod(prop) ==
  IF ~Has(prop, "type") THEN ZodAny
  ELSE CASE prop.type = "string" -> ZodOf("string")
         [] prop.type \in {"number", "integer"} -> ZodOf("number")
         [] prop.type = "boolean" -> ZodOf("boolean")
         [] prop.type = "object" -> convertJsonSchemaToZod(prop)
         [] prop.type = "array" ->
              ZodArray(IF Has(prop, "items") THEN jsonTypeToZod(prop.items) ELSE ZodAny)
         [] OTHER -> ZodAny

\* schema.safeParse(value).success: a missing field is parsed as undefined, which
\* an optional schema and z.any() accept
RECURSIVE Accepts(_, _)
Accepts(schema, value) ==
  IF value = AbsentValue THEN schema.optional \/ schema.kind = "any"
  ELSE CASE schema.kind = "any" -> TRUE
         [] schema.kind = "object" ->
              /\ value.t = "object"
              /\ \A key \in DOMAIN schema.shape :
                   Accepts(schema.shape[key],
                           IF key \in DOMAIN value.fields THEN value.fields[key]
                           ELSE AbsentValue)
         [] schema.kind = "array" ->
              /\ value.t = "array"
              /\ \A i \in 1..Len(value.items) : Accepts(schema.element, value.items[i])
         [] OTHER -> value.t = schema.kind

InitZod ==
  /\ ConvIdle
  /\ NormIdle
  /\ GenIdle
  /\ ToolIdle
  /\ ListIdle
  /\ AuthIdle
  /\ DialogIdle
  /\ ProviderIdle
  /\ CountIdle
  /\ ToolsIdle
  /\ RoundIdle
  /\ UtilIdle
  /\ SchemaIdle
  /\ toolParameters \in ToolSchemas
  /\ compiled = <<>>
  /\ toolArgs = AbsentValue
  /\ accepted = <<>>
  /\ zodPc = "start"

\* toAiSDKTools compiles the parameters of a function declaration
CallConvertJsonSchemaToZod ==
  /\ zodPc = "start"
  /\ compiled' = <<convertJsonSchemaToZod(toolParameters)>>
  /\ zodPc' = "compiled"
  /\ UNCHANGED <<toolParameters, toolArgs, accepted, notZod>>

\* The arguments of a tool call are parsed with the compiled schema
ParseToolArgs ==
  /\ zodPc = "compiled"
  /\ \E value \in ArgValues :
       /\ toolArgs' = value
       /\ accepted' = <<Accepts(compiled[1], value)>>
  /\ zodPc' = "parsed"
  /\ UNCHANGED <<toolParameters, compiled, notZod>>

NextZod == CallConvertJsonSchemaToZod \/ ParseToolArgs

SpecZod == InitZod /\ [][NextZod]_vars

(***************************************************************************)
(* Reading a parse back: what the JSON schema asks of a value.             *)
(***************************************************************************)
RECURSIVE Conforms(_, _)
Conforms(jsonSchema, value) ==
  IF "type" \notin DOMAIN jsonSchema THEN TRUE
  ELSE IF jsonSchema.type # "object" THEN value.t = jsonSchema.type
  ELSE /\ value.t = "object"
       /\ \A key \in DOMAIN jsonSchema.properties :
            IF key \in DOMAIN value.fields
            THEN Conforms(jsonSchema.properties[key], value.fields[key])
            ELSE \A i \in 1..Len(IF "required" \in DOMAIN jsonSchema
                                 THEN jsonSchema.required ELSE <<>>) :
                   jsonSchema.required[i] # key

(***************************************************************************)
(* C20 (as stated): in the schema compiled from an object JSON schema, at  *)
(* every nesting level a field is required exactly when its name is in the *)
(* object's 'required' array: the compiled schema accepts an object        *)
(* exactly when every listed field is present, at every level, and the     *)
(* fields present have the types asked for.                                *)
(***************************************************************************)
C20_RequiredExactlyWhenListed ==
  (zodPc = "parsed" /\ "properties" \in DOMAIN toolParameters) =>
    accepted = <<Conforms(toolParameters, toolArgs)>>

(***************************************************************************)
(* ModelConverter.toAiSDKTools: the tool set built from the function       *)
(* declarations of the request's tools.                                    *)
(***************************************************************************)
\* At most MaxTools tools holding at most MaxDecls declarations altogether
MaxTools == 2
MaxDecls == 2

JsNull == [js |-> "null"]

\* func.parameters: missing (no key), null, a string, without 'properties', with
\* 'properties' null, and a schema with a required string field
UnusableParameters ==
  {JsNull, JsStr("object"), [type |-> "object"],
   [type |-> "object", properties |-> JsNull]}

UsableParameters ==
  {[type |-> "object", properties |-> [x |-> PropString], required |-> <<"x">>]}

FunctionDeclarations ==
  {[name |-> n, description |-> "d"] : n \in {"f", "g", ""}}
  \cup {[name |-> n, description |-> "d", parameters |-> p] :
          n \in {"f", "g", ""}, p \in UnusableParameters \cup UsableParameters}

EmptyTools == {[functionDeclarations |-> <<>>], [googleSearch |-> TRUE]}

ParametersOf(func) == IF Has(func, "parameters") THEN func.parameters ELSE Undefined

\* Mutant: the parameters are registered as declared
ToolOf_RawParameters(func) ==
  [description |-> func.description, parameters |-> ParametersOf(func)]

\* tool({ description, parameters })
ToolOf(func) ==
  [description |-> func.description,
   parameters |-> convertJsonSchemaToZod(ParametersOf(func))]

\* aiTools[func.name] = ... for the declarations in order
RECURSIVE RegisterDeclarations(_, _)
RegisterDeclarations(tools, decls) ==
  IF Len(decls) = 0 THEN tools
  ELSE LET func == Head(decls) IN
       RegisterDeclarations(
         IF Truthy(func, "name")
         THEN [n \in DOMAIN tools \cup {func.name} |->
                 IF n = func.name THEN ToolOf(func) ELSE tools[n]]
         ELSE tools,
         Tail(decls))

\* The declarations of the tools that have a functionDeclarations list, in order
RECURSIVE DeclarationsOf(_)
DeclarationsOf(tools) ==
  IF Len(tools) = 0 THEN <<>>
  ELSE (IF Has(Head(tools), "functionDeclarations")
        THEN Head(tools).functionDeclarations ELSE <<>>)
       \o DeclarationsOf(Tail(tools))

toAiSDKTools(tools) ==
  IF Has(tools, "undefined") THEN Undefined
  ELSE LET registered ==
             RegisterDeclarations([n \in {} |-> Undefined], DeclarationsOf(tools.items)) IN
       IF DOMAIN registered = {} THEN Undefined ELSE registered

InitTools ==
  /\ ConvIdle
  /\ NormIdle
  /\ GenIdle
  /\ ToolIdle
  /\ ListIdle
  /\ AuthIdle
  /\ DialogIdle
  /\ ProviderIdle
  /\ CountIdle
  /\ RoundIdle
  /\ UtilIdle
  /\ SchemaIdle
  /\ ZodIdle
  /\ geminiTools \in {Undefined, JsArr(<<>>)}
  /\ aiTools = <<>>
  /\ aiPc = "build"

\* The request lists one more tool
AddTool ==
  /\ aiPc = "build"
  /\ IsArray(geminiTools)
  /\ Len(geminiTools.items) < MaxTools
  /\ \E t \in EmptyTools : geminiTools' = JsArr(Append(geminiTools.items, t))
  /\ UNCHANGED <<aiTools, aiPc, notTools>>

\* The last tool of the request declares one more function
AddDeclaration ==
  /\ aiPc = "build"
  /\ IsArray(geminiTools)
  /\ Len(geminiTools.items) > 0
  /\ Len(DeclarationsOf(geminiTools.items)) < MaxDecls
  /\ LET last == Len(geminiTools.items) IN
     /\ Has(geminiTools.items[last], "functionDeclarations")
     /\ \E func \in FunctionDeclarations :
          geminiTools' =
            JsArr([geminiTools.items EXCEPT
                     ![last].functionDeclarations = Append(@, func)])
  /\ UNCHANGED <<aiTools, aiPc, notTools>>

CallToAiSDKTools ==
  /\ aiPc = "build"
  /\ aiTools' = <<toAiSDKTools(geminiTools)>>
  /\ aiPc' = "done"
  /\ UNCHANGED <<geminiTools, notTools>>

NextTools == AddTool \/ AddDeclaration \/ CallToAiSDKTools

SpecTools == InitTools /\ [][NextTools]_vars

(***************************************************************************)
(* Reading the declarations of a request.                                  *)
(***************************************************************************)
DeclaredFunctions ==
  IF IsArray(geminiTools) THEN DeclarationsOf(geminiTools.items) ELSE <<>>

\* The parameters are missing, not an object, or without a 'properties' object
HasUnusableParameters(func) ==
  \/ ~Has(func, "parameters")
  \/ func.parameters \in {JsNull, JsStr("object")}
  \/ ~Has(func.parameters, "properties")
  \/ func.parameters.properties = JsNull

\* The declaration at index i is the last one of its name
IsLastOfName(i) ==
  \A j \in (i + 1)..Len(DeclaredFunctions) :
    DeclaredFunctions[j].name # DeclaredFunctions[i].name

(***************************************************************************)
(* C21: toAiSDKTools returns for every tool list, and a named declaration  *)
(* whose parameters are missing, not an object or without a usable         *)
(* 'properties' object is registered under its name with the empty-object  *)
(* schema.                                                                 *)
(***************************************************************************)
C21_UnusableParametersRegistered ==
  aiPc = "done" =>
    /\ Len(aiTools) = 1
    /\ \A i \in 1..Len(DeclaredFunctions) :
         LET func == DeclaredFunctions[i] IN
         func.name # "" =>
           /\ func.name \in DOMAIN aiTools[1]
           /\ (IsLastOfName(i) /\ HasUnusableParameters(func)) =>
                aiTools[1][func.name].parameters = ZodObject([k \in {} |-> ZodAny])

C21_Witness ==
  /\ aiPc = "done"
  /\ \E i, j \in 1..Len(DeclaredFunctions) :
       /\ DeclaredFunctions[i].name = "f"
       /\ ~Has(DeclaredFunctions[i], "parameters")
       /\ DeclaredFunctions[j].name = "g"
       /\ Has(DeclaredFunctions[j], "parameters")
       /\ DeclaredFunctions[j].parameters = JsStr("object")
       /\ DOMAIN aiTools[1] = {"f", "g"}

(***************************************************************************)
(* CustomLLMContentGenerator.countTokens.  A message content is a sequence *)
(* of characters, one per class of the regular expressions: a letter, a    *)
(* CJK ideograph, a digit, a punctuation character and a space.            *)
(***************************************************************************)
\* The messages hold at most MaxChars characters altogether
MaxChars == 4
MaxMessages == 2

Letter == "a"
Ideograph == "[CJK]"
Digit == "1"
Punctuation == ","
Space == " "
Characters == {Letter, Ideograph, Digit, Punctuation, Space}

\* messages.map((m) => m.content).join(' ')
RECURSIVE JoinContents(_)
JoinContents(contents) ==
  IF Len(contents) = 0 THEN <<>>
  ELSE IF Len(contents) = 1 THEN contents[1]
  ELSE contents[1] \o <<Space>> \o JoinContents(Tail(contents))

\* The maximal runs of characters of a class: the positions where one starts
RunStarts(text, class) ==
  {i \in 1..Len(text) : text[i] \in class /\ (i = 1 \/ text[i - 1] \notin class)}

\* The end of the run of the class that starts at i
RunEnd(text, class, i) ==
  CHOOSE j \in i..Len(text) :
    /\ \A k \in i..j : text[k] \in class
    /\ (j = Len(text) \/ text[j + 1] \notin class)

\* text.match(/[a-zA-Z]+[']?[a-zA-Z]*/g): the runs of letters
EnglishWords(text) == Cardinality(RunStarts(text, {Letter}))

\* text.match(/[\u4e00-\u9fff]/g)
ChineseChars(text) == Cardinality({i \in 1..Len(text) : text[i] = Ideograph})

\* text.match(/\b\d+\b/g): the runs of word characters that hold digits only
Numbers(text) ==
  Cardinality({i \in RunStarts(text, {Letter, Digit}) :
                 \A k \in i..RunEnd(text, {Letter, Digit}, i) : text[k] = Digit})

\* text.match(/[.,!?;:...]/g)
Punctuations(text) == Cardinality({i \in 1..Len(text) : text[i] = Punctuation})

\* text.match(/\s+/g)
WhitespaceRuns(text) == Cardinality(RunStarts(text, {Space}))

\* Math.ceil(a / b) for naturals
CeilDiv(a, b) == (a + b - 1) \div b

\* The weighted sum is computed in tenths
countTokens(contents) ==
  LET text == JoinContents(contents)
      spaces == CeilDiv(WhitespaceRuns(text), 5)
  IN  CeilDiv(12 * EnglishWords(text) + 10 * ChineseChars(text) + 8 * Numbers(text)
              + 5 * Punctuations(text) + 10 * spaces, 10)

CharsTyped ==
  IF Len(countMessages) = 0 THEN 0 ELSE Len(JoinContents(countMessages)) - (Len(countMessages) - 1)

InitCount ==
  /\ ConvIdle
  /\ NormIdle
  /\ GenIdle
  /\ ToolIdle
  /\ ListIdle
  /\ AuthIdle
  /\ DialogIdle
  /\ ProviderIdle
  /\ RoundIdle
  /\ UtilIdle
  /\ SchemaIdle
  /\ ZodIdle
  /\ ToolsIdle
  /\ countMessages = <<>>
  /\ tokenCount = <<>>
  /\ countPc = "type"

\* The request converts to one more message
AddMessage ==
  /\ countPc = "type"
  /\ Len(countMessages) < MaxMessages
  /\ countMessages' = Append(countMessages, <<>>)
  /\ UNCHANGED <<tokenCount, countPc, notCount>>

\* The content of the last message is one character longer
AddCharacter ==
  /\ countPc = "type"
  /\ Len(countMessages) > 0
  /\ CharsTyped < MaxChars
  /\ \E c \in Characters :
       countMessages' = [countMessages EXCEPT ![Len(countMessages)] = Append(@, c)]
  /\ UNCHANGED <<tokenCount, countPc, notCount>>

CallCountTokens ==
  /\ countPc = "type"
  /\ tokenCount' = <<countTokens(countMessages)>>
  /\ countPc' = "done"
  /\ UNCHANGED <<countMessages, notCount>>

NextCount == AddMessage \/ AddCharacter \/ CallCountTokens

SpecCount == InitCount /\ [][NextCount]_vars

(***************************************************************************)
(* C22 (as stated): totalTokens is the weighted sum rounded up once,       *)
(* ceil(1.2*w + 1.0*c + 0.8*n + 0.5*p + s/5), for the w words, c           *)
(* ideographs, n numbers, p punctuation characters and s whitespace runs   *)
(* of the concatenated message text.                                       *)
(***************************************************************************)
C22_RoundedUpOnce ==
  countPc = "done" =>
    LET text == JoinContents(countMessages) IN
    tokenCount = <<CeilDiv(12 * EnglishWords(text) + 10 * ChineseChars(text)
                           + 8 * Numbers(text) + 5 * Punctuations(text)
                           + 2 * WhitespaceRuns(text), 10)>>

(***************************************************************************)
(* The text messages of a content block.                                   *)
(***************************************************************************)
IsTextMessage(m) == KindOf(m) = "text"

TextsOfBlock(i) ==
  LET textParts == SelectSeq(PartsOfBlock(i), HasTextKey) IN
  [k \in 1..Len(textParts) |-> textParts[k].text]

(***************************************************************************)
(* C23 (as stated): every content block with at least one text part emits  *)
(* exactly one text message, whose content is the texts of its text parts  *)
(* in part order joined by "\n" and whose role is the block's role, with   *)
(* 'model' translated to 'assistant'; a block without text parts emits no  *)
(* text message.                                                           *)
(***************************************************************************)
C23_OneTextMessagePerBlock ==
  convPc = "done" =>
    \A i \in 1..Len(ContentsArray) :
      LET textMsgs == SelectSeq(BlockMessages(i), IsTextMessage) IN
      IF Len(TextsOfBlock(i)) = 0 THEN Len(textMsgs) = 0
      ELSE /\ Len(textMsgs) = 1
           /\ textMsgs[1].content = StrContent(Join(TextsOfBlock(i), "\n"))
           /\ "role" \in DOMAIN ContentsArray[i]
           /\ textMsgs[1].role = IF ContentsArray[i].role = "model" THEN "assistant"
                                 ELSE ContentsArray[i].role

(***************************************************************************)
(* The image parts of a content block.                                     *)
(***************************************************************************)
\* inlineData with a mimeType that starts with 'image/' and with data
IsQualifyingImage(part) ==
  /\ "inlineData" \in DOMAIN part
  /\ "mimeType" \in DOMAIN part.inlineData
  /\ part.inlineData.mimeType \in {"image/png", "image/jpeg"}
  /\ "data" \in DOMAIN part.inlineData
  /\ part.inlineData.data # ""

(***************************************************************************)
(* C24 (as stated): a content block with at least one valid function       *)
(* response emits exactly one 'user' image message when it has a           *)
(* qualifying image part, built from the first qualifying image part with  *)
(* its payload decoded, also when a non-qualifying inlineData part comes   *)
(* earlier; it emits no image message when no part qualifies.              *)
(***************************************************************************)
C24_FirstQualifyingImage ==
  convPc = "done" =>
    \A i \in 1..Len(ContentsArray) :
      Len(SelectSeq(PartsOfBlock(i), isValidFunctionResponse)) > 0 =>
        LET qualifying == SelectSeq(PartsOfBlock(i), IsQualifyingImage)
            imageMsgs == SelectSeq(BlockMessages(i), IsImageMessage)
        IN IF Len(qualifying) = 0 THEN Len(imageMsgs) = 0
           ELSE imageMsgs =
                  <<[role |-> "user",
                     content |-> ArrContent(<<
                       [type |-> "image",
                        image |-> Base64Decode(qualifying[1].inlineData.data),
                        mimeType |-> qualifying[1].inlineData.mimeType]>>)]>>

(***************************************************************************)
(* The parts that fail a classifier's required-field checks.               *)
(***************************************************************************)
IsMalformed(part) ==
  \/ /\ "functionCall" \in DOMAIN part
     /\ \/ "name" \notin DOMAIN part.functionCall
        \/ "args" \notin DOMAIN part.functionCall
  \/ /\ "functionResponse" \in DOMAIN part
     /\ \/ "id" \notin DOMAIN part.functionResponse
        \/ "name" \notin DOMAIN part.functionResponse
        \/ "response" \notin DOMAIN part.functionResponse
        \/ {"output", "error"} \cap DOMAIN part.functionResponse.response = {}

IsWellFormed(part) == ~IsMalformed(part)

HasFunctionResponseKey(part) == "functionResponse" \in DOMAIN part

\* The request with the malformed parts taken out of every block
WithoutMalformed ==
  [request EXCEPT !.contents.items =
     [i \in 1..Len(request.contents.items) |->
        [request.contents.items[i] EXCEPT !.parts = SelectSeq(@, IsWellFormed)]]]

(***************************************************************************)
(* C25: a part that fails a classifier's required-field checks (a function *)
(* call without name or without args, a function response without id or    *)
(* name, or whose response has neither output nor error) is skipped: the   *)
(* conversion returns the messages it returns for the request without the  *)
(* malformed parts, and none of them is built from a malformed part.       *)
(***************************************************************************)
C25_MalformedSkipped ==
  convPc = "done" =>
    /\ messages = toOpenAIMessages(WithoutMalformed, draws)
    /\ \A i \in 1..Len(ContentsArray) :
         /\ Len(SelectSeq(BlockMessages(i), IsToolResultMessage))
              = Len(SelectSeq(SelectSeq(PartsOfBlock(i), IsWellFormed), HasFunctionResponseKey))
         /\ \A j \in 1..Len(BlockMessages(i)) :
              IsToolCallMessage(BlockMessages(i)[j]) =>
                Len(BlockMessages(i)[j].content.value)
                  = Len(SelectSeq(SelectSeq(PartsOfBlock(i), IsWellFormed), HasFunctionCallKey))

C25_Witness ==
  /\ convPc = "done"
  /\ \E i \in 1..Len(ContentsArray) :
       /\ \E k \in 1..Len(PartsOfBlock(i)) : PartsOfBlock(i)[k] \in {CallNoArgs, CallNoName}
       /\ \E k \in 1..Len(PartsOfBlock(i)) :
            PartsOfBlock(i)[k] \in {RespNeither, RespNoId, RespNoName}
       /\ \E k \in 1..Len(PartsOfBlock(i)) : PartsOfBlock(i)[k] = TextA
       /\ Len(BlockMessages(i)) = 1

(***************************************************************************)
(* C26 (as stated): when a model block holds a function call and a later   *)
(* block holds the function response to it (the response of the same       *)
(* function name), the 'tool' message emitted for the response carries the *)
(* toolCallId of the tool-call entry emitted for the call in the earlier   *)
(* assistant message.                                                      *)
(***************************************************************************)
C26_ToolResultRefersToCall ==
  convPc = "done" =>
    \A i, j \in 1..Len(ContentsArray) :
      (i < j /\ "role" \in DOMAIN ContentsArray[i] /\ ContentsArray[i].role = "model") =>
        LET callMsgs == SelectSeq(BlockMessages(i), IsToolCallMessage)
            toolMsgs == SelectSeq(BlockMessages(j), IsToolResultMessage)
        IN \A m \in 1..Len(toolMsgs) :
             LET result == toolMsgs[m].content.value[1] IN
             (/\ Len(callMsgs) = 1
              /\ \E k \in 1..Len(callMsgs[1].content.value) :
                   callMsgs[1].content.value[k].toolName = result.toolName)
             => \E k \in 1..Len(callMsgs[1].content.value) :
                  /\ callMsgs[1].content.value[k].toolName = result.toolName
                  /\ callMsgs[1].content.value[k].toolCallId = result.toolCallId

(***************************************************************************)
(* useProviderCommand and the '/provider' sub-commands: the provider       *)
(* settings.  settings.setValue on the user scope is read back through     *)
(* settings.merged.                                                        *)
(***************************************************************************)
ProviderNames == {"p1", "p2", "p3"}

\* What the operations read of a configuration
ProviderConfigs == [enabled : BOOLEAN]

\* closeDialogs()
closeDialogs == [provider |-> FALSE, list |-> FALSE, editing |-> <<>>]

\* { ...existingProviders, [config.name]: config }
WithProvider(providers, name, config) ==
  [n \in DOMAIN providers \cup {name} |-> IF n = name THEN config ELSE providers[n]]

\* const updated = { ...existingProviders }; delete updated[name]
WithoutProvider(providers, name) ==
  [n \in DOMAIN providers \ {name} |-> providers[n]]

\* Mutant: the default is kept when its provider is deleted
DefaultAfterDelete_Kept(name) == defaultLLMProvider

\* The default after the provider `name` was deleted
DefaultAfterDelete(name) ==
  IF defaultLLMProvider = <<name>> THEN <<>> ELSE defaultLLMProvider

InitProvider ==
  /\ ConvIdle
  /\ NormIdle
  /\ GenIdle
  /\ ToolIdle
  /\ ListIdle
  /\ AuthIdle
  /\ DialogIdle
  /\ RoundIdle
  /\ UtilIdle
  /\ SchemaIdle
  /\ ZodIdle
  /\ ToolsIdle
  /\ CountIdle
  /\ llmProviders = <<>>
  /\ defaultLLMProvider = <<>>
  /\ providerDialogs = closeDialogs
  /\ providerCall = [op |-> "none"]

openAddProviderDialog ==
  /\ providerDialogs' = [provider |-> TRUE, list |-> FALSE, editing |-> <<>>]
  /\ providerCall' = [op |-> "openAddProviderDialog"]
  /\ UNCHANGED <<llmProviders, defaultLLMProvider, notProvider>>

openEditProviderDialog ==
  /\ \E name \in DOMAIN llmProviders :
       providerDialogs' = [provider |-> TRUE, list |-> FALSE, editing |-> <<name>>]
  /\ providerCall' = [op |-> "openEditProviderDialog"]
  /\ UNCHANGED <<llmProviders, defaultLLMProvider, notProvider>>

openProviderListDialog ==
  /\ providerDialogs' = [provider |-> FALSE, list |-> TRUE, editing |-> <<>>]
  /\ providerCall' = [op |-> "openProviderListDialog"]
  /\ UNCHANGED <<llmProviders, defaultLLMProvider, notProvider>>

saveProvider ==
  \E name \in ProviderNames, config \in ProviderConfigs :
    LET shouldSetAsDefault == DOMAIN llmProviders = {} IN
    /\ llmProviders' = WithProvider(llmProviders, name, config)
    /\ defaultLLMProvider' = IF shouldSetAsDefault THEN <<name>> ELSE defaultLLMProvider
    /\ providerDialogs' = closeDialogs
    /\ providerCall' = [op |-> "saveProvider", name |-> name, first |-> shouldSetAsDefault]
    /\ UNCHANGED notProvider

deleteProvider ==
  \E name \in ProviderNames :
    /\ llmProviders' = WithoutProvider(llmProviders, name)
    /\ defaultLLMProvider' = DefaultAfterDelete(name)
    /\ providerDialogs' = closeDialogs
    /\ providerCall' = [op |-> "deleteProvider", name |-> name,
                        wasDefault |-> defaultLLMProvider = <<name>>]
    /\ UNCHANGED notProvider

\* Called with the name of a listed provider, as ProviderListDialog does
setDefaultProvider ==
  \E name \in DOMAIN llmProviders :
    /\ defaultLLMProvider' = <<name>>
    /\ providerDialogs' = closeDialogs
    /\ providerCall' = [op |-> "setDefaultProvider", name |-> name]
    /\ UNCHANGED <<llmProviders, notProvider>>

\* '/provider remove <args>'
removeSubCommand ==
  \E providerName \in ProviderNames \cup {""} :
    IF providerName = "" \/ providerName \notin DOMAIN llmProviders
    THEN /\ providerCall' = [op |-> "remove", name |-> providerName, error |-> TRUE]
         /\ UNCHANGED <<llmProviders, defaultLLMProvider, providerDialogs, notProvider>>
    ELSE /\ llmProviders' = WithoutProvider(llmProviders, providerName)
         /\ defaultLLMProvider' = DefaultAfterDelete(providerName)
         /\ providerCall' = [op |-> "remove", name |-> providerName, error |-> FALSE,
                             wasDefault |-> defaultLLMProvider = <<providerName>>]
         /\ UNCHANGED <<providerDialogs, notProvider>>

\* '/provider set-default <args>'
setDefaultSubCommand ==
  \E providerName \in ProviderNames \cup {""} :
    IF \/ providerName = ""
       \/ providerName \notin DOMAIN llmProviders
       \/ ~llmProviders[providerName].enabled
    THEN /\ providerCall' = [op |-> "set-default", name |-> providerName, error |-> TRUE]
         /\ UNCHANGED <<llmProviders, defaultLLMProvider, providerDialogs, notProvider>>
    ELSE /\ defaultLLMProvider' = <<providerName>>
         /\ providerCall' = [op |-> "set-default", name |-> providerName, error |-> FALSE]
         /\ UNCHANGED <<llmProviders, providerDialogs, notProvider>>

NextProvider ==
  \/ openAddProviderDialog
  \/ openEditProviderDialog
  \/ openProviderListDialog
  \/ saveProvider
  \/ deleteProvider
  \/ setDefaultProvider
  \/ removeSubCommand
  \/ setDefaultSubCommand

SpecProvider == InitProvider /\ [][NextProvider]_vars

(***************************************************************************)
(* C27: after any sequence of saveProvider, deleteProvider and             *)
(* setDefaultProvider calls (setDefaultProvider with a listed name) and of *)
(* '/provider remove' and '/provider set-default' commands, the default    *)
(* provider is unset or the name of a provider of llmProviders; saving the *)
(* first provider makes it the default, and deleting the default provider  *)
(* clears the default.                                                     *)
(***************************************************************************)
C27_DefaultIsListed ==
  /\ defaultLLMProvider = <<>> \/ defaultLLMProvider[1] \in DOMAIN llmProviders
  /\ (providerCall.op = "saveProvider" /\ providerCall.first) =>
       defaultLLMProvider = <<providerCall.name>>
  /\ (providerCall.op = "deleteProvider" /\ providerCall.wasDefault) =>
       defaultLLMProvider = <<>>
  /\ (providerCall.op = "remove" /\ ~providerCall.error /\ providerCall.wasDefault) =>
       defaultLLMProvider = <<>>

C27_Witness ==
  /\ providerCall.op = "deleteProvider"
  /\ providerCall.wasDefault
  /\ llmProviders # <<>>
  /\ defaultLLMProvider = <<>>

(***************************************************************************)
(* ProviderDialog: the steps of the add/edit provider dialog, with the     *)
(* checks InputField makes before it calls onSubmit.                       *)
(***************************************************************************)
OpenRouter == "openrouter"
DefaultBaseUrl == "https://openrouter.ai/api/v1"

\* What the user submits in a field, and what an initialConfig may hold
NameInputs == {"", " ", "p1", "p2", "bad name!"}
ApiKeyInputs == {"", " ", "k", "k2"}
BaseUrlInputs == {"", "https://x.io", "not-a-url"}

\* String.prototype.trim() on the strings of the model
TrimString(s) == IF s = " " THEN "" ELSE s

\* new URL(s) does not throw
IsUrl(s) == s \in {"https://x.io", DefaultBaseUrl}

\* /^[a-zA-Z0-9-_]+$/.test(value)
IsPlainName(s) == s \in {"p1", "p2"}

createDefaultProviderConfig(type, name, key, url) ==
  [name |-> TrimString(name),
   displayName |-> "OpenRouter",
   type |-> type,
   apiKey |-> TrimString(key),
   baseUrl |-> IF TrimString(url) # "" THEN TrimString(url) ELSE DefaultBaseUrl,
   isDefault |-> FALSE,
   enabled |-> TRUE]

\* null is <<>>
validateLLMProviderConfig(config) ==
  IF TrimString(config.name) = "" THEN <<"Provider name is required">>
  ELSE IF config.type # OpenRouter THEN <<"Valid provider type is required">>
  ELSE IF TrimString(config.apiKey) = "" THEN <<"API key is required">>
  ELSE IF config.baseUrl # "" /\ ~IsUrl(config.baseUrl)
       THEN <<"Base URL must be a valid URL">>
  ELSE <<>>

\* Mutant: the configuration is saved without being validated
ValidationError_Skipped(config) == <<>>

\* handleConfirmation: validationError
ValidationError(config) == validateLLMProviderConfig(config)

\* InputField.validateValue: the error that keeps onSubmit from being called
FieldError(value, required, isUrlField, plainName) ==
  IF required /\ TrimString(value) = "" THEN <<"required">>
  ELSE IF isUrlField /\ TrimString(value) # "" /\ ~IsUrl(TrimString(value))
       THEN <<"Please enter a valid URL">>
  ELSE IF plainName /\ ~IsPlainName(value) THEN <<"Name can only contain ...">>
  ELSE <<>>

\* useState initial values
DialogState(isEdit, initialConfig) ==
  [isEdit |-> isEdit,
   currentStep |-> IF isEdit THEN "api_key" ELSE "provider_type",
   providerType |-> OpenRouter,
   providerName |-> initialConfig.name,
   apiKey |-> initialConfig.apiKey,
   baseUrl |-> initialConfig.baseUrl,
   error |-> <<>>]

InitDialog ==
  /\ ConvIdle
  /\ NormIdle
  /\ GenIdle
  /\ ToolIdle
  /\ ListIdle
  /\ AuthIdle
  /\ RoundIdle
  /\ UtilIdle
  /\ SchemaIdle
  /\ ZodIdle
  /\ ToolsIdle
  /\ CountIdle
  /\ ProviderIdle
  /\ dialog \in {DialogState(FALSE, [name |-> "", apiKey |-> "", baseUrl |-> ""])}
                \cup {DialogState(TRUE, [name |-> n, apiKey |-> k, baseUrl |-> u]) :
                        n \in {"", "p1"}, k \in {"", "k"}, u \in BaseUrlInputs}
  /\ onSaveCalls = <<>>
  /\ dialogPc = "open"

handleProviderTypeSelect ==
  /\ dialogPc = "open"
  /\ dialog.currentStep = "provider_type"
  /\ dialog' = [dialog EXCEPT !.providerType = OpenRouter,
                              !.baseUrl = DefaultBaseUrl,
                              !.currentStep = "provider_name"]
  /\ UNCHANGED <<onSaveCalls, dialogPc, notDialog>>

\* Enter in the name field
handleProviderNameSubmit ==
  /\ dialogPc = "open"
  /\ dialog.currentStep = "provider_name"
  /\ \E name \in NameInputs :
       /\ FieldError(name, TRUE, FALSE, TRUE) = <<>>
       /\ dialog' = IF TrimString(name) = ""
                    THEN [dialog EXCEPT !.error = <<"Provider name is required">>]
                    ELSE [dialog EXCEPT !.providerName = TrimString(name),
                                        !.error = <<>>,
                                        !.currentStep = "api_key"]
  /\ UNCHANGED <<onSaveCalls, dialogPc, notDialog>>

\* Enter in the API key field
handleApiKeySubmit ==
  /\ dialogPc = "open"
  /\ dialog.currentStep = "api_key"
  /\ \E key \in ApiKeyInputs :
       /\ FieldError(key, TRUE, FALSE, FALSE) = <<>>
       /\ dialog' = IF TrimString(key) = ""
                    THEN [dialog EXCEPT !.error = <<"API key is required">>]
                    ELSE [dialog EXCEPT !.apiKey = TrimString(key),
                                        !.error = <<>>,
                                        !.currentStep = "base_url"]
  /\ UNCHANGED <<onSaveCalls, dialogPc, notDialog>>

\* Enter in the base URL field
handleBaseUrlSubmit ==
  /\ dialogPc = "open"
  /\ dialog.currentStep = "base_url"
  /\ \E url \in BaseUrlInputs :
       /\ FieldError(url, FALSE, TRUE, FALSE) = <<>>
       /\ dialog' = [dialog EXCEPT !.baseUrl = TrimString(url),
                                   !.error = <<>>,
                                   !.currentStep = "confirmation"]
  /\ UNCHANGED <<onSaveCalls, dialogPc, notDialog>>

\* Enter at the confirmation step
handleConfirmation ==
  /\ dialogPc = "open"
  /\ dialog.currentStep = "confirmation"
  /\ LET config == createDefaultProviderConfig(dialog.providerType, dialog.providerName,
                                               dialog.apiKey, dialog.baseUrl)
     IN IF ValidationError(config) # <<>>
        THEN /\ dialog' = [dialog EXCEPT !.error = ValidationError(config)]
             /\ UNCHANGED <<onSaveCalls, dialogPc>>
        ELSE /\ onSaveCalls' = Append(onSaveCalls,
                                      [config |-> config, step |-> dialog.currentStep])
             /\ dialogPc' = "saved"
             /\ UNCHANGED dialog
  /\ UNCHANGED notDialog

\* Escape in a field or at the confirmation step
handleCancel ==
  /\ dialogPc = "open"
  /\ dialog.currentStep # "provider_type"
  /\ dialog' = [dialog EXCEPT !.error = <<>>]
  /\ dialogPc' = "cancelled"
  /\ UNCHANGED <<onSaveCalls, notDialog>>

\* Ctrl+Backspace
handleBack ==
  /\ dialogPc = "open"
  /\ dialog.currentStep # (IF dialog.isEdit THEN "api_key" ELSE "provider_type")
  /\ dialog' = [dialog EXCEPT
                  !.error = <<>>,
                  !.currentStep =
                     CASE @ = "provider_name" -> "provider_type"
                       [] @ = "api_key" ->
                            (IF dialog.isEdit THEN "api_key" ELSE "provider_name")
                       [] @ = "base_url" -> "api_key"
                       [] @ = "confirmation" -> "base_url"
                       [] OTHER -> @]
  /\ UNCHANGED <<onSaveCalls, dialogPc, notDialog>>

NextDialog ==
  \/ handleProviderTypeSelect
  \/ handleProviderNameSubmit
  \/ handleApiKeySubmit
  \/ handleBaseUrlSubmit
  \/ handleConfirmation
  \/ handleCancel
  \/ handleBack

SpecDialog == InitDialog /\ [][NextDialog]_vars

(***************************************************************************)
(* C28: ProviderDialog calls onSave only from the CONFIRMATION step and    *)
(* only with a configuration validateLLMProviderConfig accepts (a name, a  *)
(* supported type, an API key, and a base URL that parses), whatever steps *)
(* were submitted and gone back from; in edit mode the dialog is never at  *)
(* the PROVIDER_TYPE or PROVIDER_NAME step.                                *)
(***************************************************************************)
C28_SavesOnlyValidFromConfirmation ==
  /\ \A i \in 1..Len(onSaveCalls) :
       /\ onSaveCalls[i].step = "confirmation"
       /\ onSaveCalls[i].config.name # ""
       /\ onSaveCalls[i].config.type = OpenRouter
       /\ onSaveCalls[i].config.apiKey # ""
       /\ IsUrl(onSaveCalls[i].config.baseUrl)
       /\ validateLLMProviderConfig(onSaveCalls[i].config) = <<>>
  /\ ("currentStep" \in DOMAIN dialog /\ dialog.isEdit) =>
       dialog.currentStep \notin {"provider_type", "provider_name"}

C28_Witness ==
  /\ dialogPc = "saved"
  /\ dialog.isEdit
  /\ Len(onSaveCalls) = 1
  /\ onSaveCalls[1].config.baseUrl = "https://x.io"

(***************************************************************************)
(* AuthDialog: handleAuthSelect and the Escape handler.  An onSelect call  *)
(* is recorded in authEvent; the parent may store the selected method in   *)
(* the settings and leave the dialog mounted.                              *)
(***************************************************************************)
AuthTypes == {"gemini-api-key", "custom-llm", "llm-provider"}

MustSelectError == "You must select an auth method to proceed. Press Ctrl+C twice to exit."

\* validateAuthMethod(authMethod): null is <<>>
AuthMethodError(authMethod) ==
  IF authMethod \in validMethods THEN <<>> ELSE <<"invalid: " \o authMethod>>

\* Mutant: Escape closes the dialog although an error is shown
EscapeOutcome_IgnoresError(message, selected) ==
  IF selected = <<>> THEN "must-select" ELSE "close"

\* The branch the Escape handler takes
EscapeOutcome(message, selected) ==
  IF message # <<>> THEN "ignored"
  ELSE IF selected = <<>> THEN "must-select"
  ELSE "close"

InitAuth ==
  /\ ConvIdle
  /\ NormIdle
  /\ GenIdle
  /\ ToolIdle
  /\ ListIdle
  /\ RoundIdle
  /\ UtilIdle
  /\ SchemaIdle
  /\ ZodIdle
  /\ ToolsIdle
  /\ CountIdle
  /\ ProviderIdle
  /\ DialogIdle
  /\ errorMessage \in {<<>>, <<"initial error">>}
  /\ selectedAuthType \in {<<>>} \cup {<<t>> : t \in AuthTypes}
  /\ validMethods \in SUBSET AuthTypes
  /\ authEvent = [key |-> "none"]

\* Enter on an item of the list
handleAuthSelect ==
  \E authMethod \in AuthTypes :
    LET error == AuthMethodError(authMethod) IN
    IF error # <<>>
    THEN /\ errorMessage' = error
         /\ authEvent' = [key |-> "return", authMethod |-> authMethod, valid |-> FALSE,
                          onSelect |-> <<>>]
         /\ UNCHANGED <<selectedAuthType, validMethods, notAuth>>
    ELSE /\ errorMessage' = <<>>
         /\ authEvent' = [key |-> "return", authMethod |-> authMethod, valid |-> TRUE,
                          onSelect |-> <<[authMethod |-> <<authMethod>>]>>]
         /\ selectedAuthType' \in {selectedAuthType, <<authMethod>>}
         /\ UNCHANGED <<validMethods, notAuth>>

\* useInput: key.escape
handleEscape ==
  LET outcome == EscapeOutcome(errorMessage, selectedAuthType) IN
  /\ authEvent' = [key |-> "escape", hadError |-> errorMessage # <<>>,
                   hadSelection |-> selectedAuthType # <<>>,
                   onSelect |-> IF outcome = "close" THEN <<[authMethod |-> <<>>]>>
                                ELSE <<>>]
  /\ errorMessage' = IF outcome = "must-select" THEN <<MustSelectError>> ELSE errorMessage
  /\ UNCHANGED <<selectedAuthType, validMethods, notAuth>>

NextAuth == handleAuthSelect \/ handleEscape

SpecAuth == InitAuth /\ [][NextAuth]_vars

ListKeys == {"return", "escape", "y", "Y", "n", "N", "d", "s", "x"}

ProviderLists ==
  {<<>>, <<"p1">>, <<"p2">>, <<"p1", "p2">>, <<"p2", "p1">>, <<"p3", "p1", "p2">>}

\* actionItems: one EDIT item per provider, a disabled separator, ADD_NEW, CANCEL
actionItems ==
  [i \in 1..Len(listProviders) |-> [value |-> "edit", providerName |-> <<listProviders[i]>>]]
  \o (IF Len(listProviders) > 0 THEN <<[value |-> "cancel", disabled |-> TRUE]>> ELSE <<>>)
  \o <<[value |-> "add_new"], [value |-> "cancel"]>>

\* actionItems[selectedIndex]?.providerName: selectedIndex is never set
currentProviderName ==
  IF "providerName" \in DOMAIN actionItems[1] THEN actionItems[1].providerName ELSE <<>>

\* Mutant: every key confirms the prompt
ConfirmationAnswer_AnyKey(key) == "yes"

\* key.return || input.toLowerCase() === 'y', key.escape || ... === 'n'
ConfirmationAnswer(key) ==
  IF key \in {"return", "y", "Y"} THEN "yes"
  ELSE IF key \in {"escape", "n", "N"} THEN "no"
  ELSE "none"

\* handleSelection(item): the callbacks called
SelectionCalls(item) ==
  IF "disabled" \in DOMAIN item THEN <<>>
  ELSE CASE item.value = "edit" -> <<[callback |-> "onEdit", name |-> item.providerName[1]]>>
         [] item.value = "add_new" -> <<[callback |-> "onAddNew"]>>
         [] item.value = "cancel" -> <<[callback |-> "onCancel"]>>

InitList ==
  /\ ConvIdle
  /\ NormIdle
  /\ GenIdle
  /\ ToolIdle
  /\ RoundIdle
  /\ UtilIdle
  /\ SchemaIdle
  /\ ZodIdle
  /\ ToolsIdle
  /\ CountIdle
  /\ ProviderIdle
  /\ DialogIdle
  /\ AuthIdle
  /\ listProviders \in ProviderLists
  /\ showConfirmation = FALSE
  /\ confirmationAction = <<>>
  /\ listEvent = [key |-> "none"]

\* useInput while the prompt is shown: handleConfirmation or nothing
KeyAtPrompt ==
  /\ showConfirmation
  /\ \E key \in ListKeys :
       LET reply == ConfirmationAnswer(key)
           deleted == reply = "yes" /\ confirmationAction # <<>>
       IN /\ listEvent' = [key |-> key, prompt |-> confirmationAction,
                           calls |-> IF deleted
                                     THEN <<[callback |-> "onDelete",
                                             name |-> confirmationAction[1]]>>
                                     ELSE <<>>]
          /\ showConfirmation' = (reply = "none")
          /\ confirmationAction' = IF reply = "none" THEN confirmationAction ELSE <<>>
          /\ listProviders' \in
               IF deleted
               THEN {listProviders,
                     SelectSeq(listProviders, LAMBDA n : n # confirmationAction[1])}
               ELSE {listProviders}
  /\ UNCHANGED notList

\* useInput while the list is shown: Escape, D and S; Enter goes to the list
KeyAtList ==
  /\ ~showConfirmation
  /\ \E key \in ListKeys \ {"return"} :
       LET hasProviders == Len(listProviders) > 0
           name == currentProviderName
       IN /\ listEvent' =
               [key |-> key, prompt |-> <<>>,
                calls |-> IF key = "escape" THEN <<[callback |-> "onCancel"]>>
                          ELSE IF key = "s" /\ hasProviders /\ name # <<>>
                          THEN <<[callback |-> "onSetDefault", name |-> name[1]]>>
                          ELSE <<>>]
          /\ IF key = "d" /\ hasProviders /\ name # <<>>
             THEN /\ showConfirmation' = TRUE
                  /\ confirmationAction' = name
             ELSE UNCHANGED <<showConfirmation, confirmationAction>>
  /\ UNCHANGED <<listProviders, notList>>

\* Enter on an item of the list
handleSelection ==
  /\ ~showConfirmation
  /\ \E i \in 1..Len(actionItems) :
       listEvent' = [key |-> "return", prompt |-> <<>>,
                     calls |-> SelectionCalls(actionItems[i])]
  /\ UNCHANGED <<listProviders, showConfirmation, confirmationAction, notList>>

NextList == KeyAtPrompt \/ KeyAtList \/ handleSelection

SpecList == InitList /\ [][NextList]_vars

(***************************************************************************)
(* C30: onDelete(name) is called only when the deletion prompt was open    *)
(* for that name and was answered with Enter or Y; N or Escape at the      *)
(* prompt closes it and calls neither onDelete nor onCancel; and while the *)
(* prompt is shown no other key calls onCancel or onSetDefault or opens a  *)
(* new deletion request.                                                   *)
(***************************************************************************)
C30_DeleteOnlyWhenConfirmed ==
  listEvent.key # "none" =>
    /\ \A i \in 1..Len(listEvent.calls) :
         listEvent.calls[i].callback = "onDelete" =>
           /\ listEvent.prompt = <<listEvent.calls[i].name>>
           /\ listEvent.key \in {"return", "y", "Y"}
    /\ listEvent.prompt # <<>> =>
         /\ \A i \in 1..Len(listEvent.calls) : listEvent.calls[i].callback = "onDelete"
         /\ listEvent.key \in {"n", "N", "escape"} =>
              (listEvent.calls = <<>> /\ ~showConfirmation)
         /\ listEvent.key \notin {"n", "N", "escape", "return", "y", "Y"} =>
              /\ listEvent.calls = <<>>
              /\ showConfirmation
              /\ confirmationAction = listEvent.prompt
    /\ showConfirmation => confirmationAction # <<>>

C30_Witness ==
  /\ listEvent.key = "Y"
  /\ listEvent.prompt = <<"p2">>
  /\ listEvent.calls = <<[callback |-> "onDelete", name |-> "p2"]>>
  /\ ~showConfirmation

====
